---- MODULE Spec2Model ----
(***************************************************************************)
(* State-machine model of user-management-models: the StorageAdapter       *)
(* contract, its two implementations (MemoryAdapter, FileSystemAdapter)    *)
(* and the list query (filter, sort, pagination) both of them apply.       *)
(*                                                                         *)
(* Conventions                                                             *)
(*  - a JS object is a TLA+ function from field names to values; an absent *)
(*    (undefined) field is a name outside its DOMAIN;                      *)
(*  - a JS Map and a JS array are sequences (a Map keeps insertion order): *)
(*    a Map is a sequence of [key, value] entries;                         *)
(*  - `T | null` is a sequence of length 0 (null) or 1;                    *)
(*  - a timestamp is [rep, ms]: rep tells a Date object from the ISO-8601  *)
(*    string JSON.stringify turns it into, ms is the instant;              *)
(*  - an operation is an operator from the adapter (and the file, the id   *)
(*    counter, the clock) to the adapter after it and what it returned or  *)
(*    threw.                                                               *)
(***************************************************************************)
EXTENDS Integers, Sequences, FiniteSets, TLC

\* ------------------------------------------------------------------ bounds

\* steps (adapter calls and clock ticks) in one behaviour
MaxCalls == 5

\* writing calls and clock ticks in one behaviour of WriteSpec, whose
\* statements apply further calls to every world reached
MaxWrites == 4

\* HookManager calls (registerHook, removeHook, removeAllHooks, executeHooks)
\* in one behaviour
MaxHookCalls == 4

\* calls of the facade and its managers (registerHook and the pipeline
\* methods) in one behaviour of ManagerSpec
MaxManagerCalls == 3

\* calls of the facade in one behaviour of LifecycleSpec
MaxFacadeCalls == 4

\* calls given to the two adapters in one behaviour of PairSpec
MaxPairCalls == 4
\* calls made before the two call sites call beginTransaction, in one
\* behaviour of RaceSpec
MaxRaceCalls == 2
\* keys of a sort specification given to the sort callback in SortSpec
MaxSortKeys == 2

\* ------------------------------------------------------------ JS helpers

\* { ...a, ...b }
Merge(a, b) ==
  [f \in (DOMAIN a) \cup (DOMAIN b) |-> IF f \in DOMAIN b THEN b[f] ELSE a[f]]

\* new Date() at instant ms
NewDate(ms) == [rep |-> "Date", ms |-> ms]

\* Date.prototype.toJSON: the ISO-8601 string of the instant (a string stays a string)
ToISOString(d) == [rep |-> "string", ms |-> d.ms]

\* new Date(x) where x is an ISO-8601 string (or a Date)
ParseDate(x) == [rep |-> "Date", ms |-> x.ms]

Ok(v) == [ok |-> TRUE, value |-> v]
Err(e) == [ok |-> FALSE, error |-> e]

\* Map.prototype.has / get / set / delete / values on a sequence of entries
MapHas(m, k) == \E i \in 1..Len(m) : m[i].key = k
MapIndex(m, k) == CHOOSE i \in 1..Len(m) : m[i].key = k
MapGet(m, k) == IF MapHas(m, k) THEN <<m[MapIndex(m, k)].value>> ELSE <<>>
MapSet(m, k, v) ==
  IF MapHas(m, k)
    THEN [m EXCEPT ![MapIndex(m, k)] = [key |-> k, value |-> v]]
    ELSE Append(m, [key |-> k, value |-> v])
MapDelete(m, k) == SelectSeq(m, LAMBDA e : e.key # k)
MapValues(m) == [i \in 1..Len(m) |-> m[i].value]

\* Array.prototype.slice(from, to) for 0 <= from
Slice(s, from, to) ==
  LET hi == IF to < Len(s) THEN to ELSE Len(s)
  IN  IF from >= hi THEN <<>> ELSE [i \in 1..(hi - from) |-> s[from + i]]

\* Array.prototype.findIndex over the callback's results on the elements,
\* 1-based; 0 stands for -1
FindIndex(hits) ==
  IF \E i \in 1..Len(hits) : hits[i]
    THEN CHOOSE i \in 1..Len(hits) : hits[i] /\ \A j \in 1..(i - 1) : ~hits[j]
    ELSE 0

\* Array.prototype.splice(index, 1)
RemoveAt(s, i) == [j \in 1..(Len(s) - 1) |-> IF j < i THEN s[j] ELSE s[j + 1]]

\* --------------------------------------------------------------- Validator

\* /^[^\s@]+@[^\s@]+\.[^\s@]+$/.test(email), on the addresses the model uses
EmailRegexTest(email) == email \in {"a@x.io"}

\* Validator.validateUser: the list of errors
validateUser(user) ==
  (IF "username" \notin DOMAIN user \/ user.username = ""
     THEN <<[field |-> "username", message |-> "Username is required"]>>
     ELSE <<>>)
  \o
  (IF "email" \notin DOMAIN user \/ user.email = ""
     THEN <<[field |-> "email", message |-> "Email is required"]>>
     ELSE IF ~EmailRegexTest(user.email)
       THEN <<[field |-> "email", message |-> "Email is not valid"]>>
       ELSE <<>>)

\* Validator.validateRole: the list of errors
validateRole(role) ==
  IF "name" \notin DOMAIN role \/ role.name = ""
    THEN <<[field |-> "name", message |-> "Role name is required"]>>
    ELSE <<>>

\* Validator.validateId: TRUE when it returns an error (the empty string)
validateId(id) == id = ""

\* ------------------------------------------------------------- IdGenerator

\* IdGenerator.generate with ++counter = c.  The id is
\* `${timestamp}-${random}-${counter}`; the counter is its only part the model
\* keeps, the one that tells two ids apart.
generate(c) == "id" \o ToString(c)

\* ----------------------------------------------------------- MemoryAdapter

\* The world an operation runs in is w = [adapter, file, counter, clock]: the
\* adapter instance (`this`), the snapshot file of the data directory,
\* IdGenerator.counter and the system clock.  An operation yields the world
\* after it and its outcome: Ok(returned value) or Err(thrown message).
Result(w, r) == [w |-> w, ret |-> r]

\* new MemoryAdapter()
NewMemoryAdapter ==
  [class |-> "MemoryAdapter", users |-> <<>>, roles |-> <<>>, userRoles |-> <<>>,
   inTransaction |-> FALSE, transactionData |-> <<>>]

\* MemoryAdapter.beginTransaction
M_beginTransaction(w) ==
  LET a == w.adapter
  IN  IF a.inTransaction
        THEN Result(w, Err("Transaction already in progress"))
        ELSE Result([w EXCEPT !.adapter =
                       [a EXCEPT !.inTransaction = TRUE,
                                 !.transactionData =
                                    <<[users |-> a.users, roles |-> a.roles,
                                       userRoles |-> a.userRoles]>>]],
                    Ok("void"))

\* a commit that leaves the live associations as they were
M_commit_keepsUserRoles(w) ==
  LET a == w.adapter
  IN  IF ~a.inTransaction \/ a.transactionData = <<>>
        THEN Result(w, Err("No transaction in progress"))
        ELSE Result([w EXCEPT !.adapter =
                       [a EXCEPT !.users = a.transactionData[1].users,
                                 !.roles = a.transactionData[1].roles,
                                 !.inTransaction = FALSE,
                                 !.transactionData = <<>>]],
                    Ok("void"))

\* MemoryAdapter.commit
M_commit(w) ==
  LET a == w.adapter
  IN  IF ~a.inTransaction \/ a.transactionData = <<>>
        THEN Result(w, Err("No transaction in progress"))
        ELSE Result([w EXCEPT !.adapter =
                       [a EXCEPT !.users = a.transactionData[1].users,
                                 !.roles = a.transactionData[1].roles,
                                 !.userRoles = a.transactionData[1].userRoles,
                                 !.inTransaction = FALSE,
                                 !.transactionData = <<>>]],
                    Ok("void"))

\* MemoryAdapter.rollback
M_rollback(w) ==
  LET a == w.adapter
  IN  IF ~a.inTransaction \/ a.transactionData = <<>>
        THEN Result(w, Err("No transaction in progress"))
        ELSE Result([w EXCEPT !.adapter =
                       [a EXCEPT !.inTransaction = FALSE, !.transactionData = <<>>]],
                    Ok("void"))

\* MemoryAdapter.getUserMap / getRoleMap / getUserRoleMap: the Map the
\* operations read and write, the transaction's while one is open
M_inTx(a) == a.inTransaction /\ a.transactionData # <<>>
M_getUserMap(a) == IF M_inTx(a) THEN a.transactionData[1].users ELSE a.users
M_getRoleMap(a) == IF M_inTx(a) THEN a.transactionData[1].roles ELSE a.roles
M_getUserRoleMap(a) == IF M_inTx(a) THEN a.transactionData[1].userRoles ELSE a.userRoles

\* the adapter after a write to the Map getUserMap / getRoleMap / getUserRoleMap returned
M_setUserMap(a, m) ==
  IF M_inTx(a) THEN [a EXCEPT !.transactionData[1].users = m] ELSE [a EXCEPT !.users = m]
M_setRoleMap(a, m) ==
  IF M_inTx(a) THEN [a EXCEPT !.transactionData[1].roles = m] ELSE [a EXCEPT !.roles = m]
M_setUserRoleMap(a, m) ==
  IF M_inTx(a) THEN [a EXCEPT !.transactionData[1].userRoles = m]
               ELSE [a EXCEPT !.userRoles = m]

\* createUser that stores the record without its timestamps
M_createUser_storesUntimed(w, userData) ==
  IF validateUser(userData) # <<>>
    THEN Result(w, Err("Validation failed"))
    ELSE LET id == generate(w.counter + 1)
             now == NewDate(w.clock)
             user == Merge(userData, [id |-> id, createdAt |-> now, updatedAt |-> now])
         IN  Result([w EXCEPT !.counter = w.counter + 1,
                              !.adapter = M_setUserMap(w.adapter,
                                            MapSet(M_getUserMap(w.adapter), id,
                                                   Merge(userData, [id |-> id])))],
                    Ok(user))

\* MemoryAdapter.createUser
M_createUser(w, userData) ==
  IF validateUser(userData) # <<>>
    THEN Result(w, Err("Validation failed"))
    ELSE LET id == generate(w.counter + 1)
             now == NewDate(w.clock)
             user == Merge(userData, [id |-> id, createdAt |-> now, updatedAt |-> now])
         IN  Result([w EXCEPT !.counter = w.counter + 1,
                              !.adapter = M_setUserMap(w.adapter,
                                            MapSet(M_getUserMap(w.adapter), id, user))],
                    Ok(user))

\* MemoryAdapter.getUserById
M_getUserById(w, id) ==
  IF validateId(id)
    THEN Result(w, Err("Validation failed"))
    ELSE Result(w, Ok(MapGet(M_getUserMap(w.adapter), id)))

\* MemoryAdapter.updateUser
M_updateUser(w, id, userData) ==
  IF validateId(id)
    THEN Result(w, Err("Validation failed"))
    ELSE LET users == M_getUserMap(w.adapter)
         IN  IF ~MapHas(users, id)
               THEN Result(w, Ok(<<>>))
               ELSE LET user == MapGet(users, id)[1]
                    IN  IF validateUser(Merge(user, userData)) # <<>>
                          THEN Result(w, Err("Validation failed"))
                          ELSE LET updatedUser ==
                                     Merge(Merge(user, userData),
                                           [updatedAt |-> NewDate(w.clock)])
                               IN  Result([w EXCEPT !.adapter =
                                             M_setUserMap(w.adapter,
                                                          MapSet(users, id, updatedUser))],
                                          Ok(<<updatedUser>>))

\* MemoryAdapter.deleteUser
M_deleteUser(w, id) ==
  IF validateId(id)
    THEN Result(w, Err("Validation failed"))
    ELSE LET users == M_getUserMap(w.adapter)
             userRoles == M_getUserRoleMap(w.adapter)
             a1 == M_setUserRoleMap(w.adapter,
                                    SelectSeq(userRoles, LAMBDA e : e.value.userId # id))
         IN  Result([w EXCEPT !.adapter = M_setUserMap(a1, MapDelete(users, id))],
                    Ok(MapHas(users, id)))

\* createRole that takes the identifier before it validates
M_createRole_idFirst(w, roleData) ==
  LET id == generate(w.counter + 1)
      w1 == [w EXCEPT !.counter = w.counter + 1]
  IN  IF validateRole(roleData) # <<>>
        THEN Result(w1, Err("Validation failed"))
        ELSE LET now == NewDate(w.clock)
                 role == Merge(roleData, [id |-> id, createdAt |-> now, updatedAt |-> now])
             IN  Result([w1 EXCEPT !.adapter = M_setRoleMap(w.adapter,
                                                  MapSet(M_getRoleMap(w.adapter), id, role))],
                        Ok(role))

\* MemoryAdapter.createRole
M_createRole(w, roleData) ==
  IF validateRole(roleData) # <<>>
    THEN Result(w, Err("Validation failed"))
    ELSE LET id == generate(w.counter + 1)
             now == NewDate(w.clock)
             role == Merge(roleData, [id |-> id, createdAt |-> now, updatedAt |-> now])
         IN  Result([w EXCEPT !.counter = w.counter + 1,
                              !.adapter = M_setRoleMap(w.adapter,
                                            MapSet(M_getRoleMap(w.adapter), id, role))],
                    Ok(role))

\* MemoryAdapter.getRoleById
M_getRoleById(w, id) ==
  IF validateId(id)
    THEN Result(w, Err("Validation failed"))
    ELSE Result(w, Ok(MapGet(M_getRoleMap(w.adapter), id)))

\* MemoryAdapter.updateRole
M_updateRole(w, id, roleData) ==
  IF validateId(id)
    THEN Result(w, Err("Validation failed"))
    ELSE LET roles == M_getRoleMap(w.adapter)
         IN  IF ~MapHas(roles, id)
               THEN Result(w, Ok(<<>>))
               ELSE LET role == MapGet(roles, id)[1]
                    IN  IF validateRole(Merge(role, roleData)) # <<>>
                          THEN Result(w, Err("Validation failed"))
                          ELSE LET updatedRole ==
                                     Merge(Merge(role, roleData),
                                           [updatedAt |-> NewDate(w.clock)])
                               IN  Result([w EXCEPT !.adapter =
                                             M_setRoleMap(w.adapter,
                                                          MapSet(roles, id, updatedRole))],
                                          Ok(<<updatedRole>>))

\* MemoryAdapter.deleteRole
M_deleteRole(w, id) ==
  IF validateId(id)
    THEN Result(w, Err("Validation failed"))
    ELSE LET roles == M_getRoleMap(w.adapter)
             userRoles == M_getUserRoleMap(w.adapter)
             a1 == M_setUserRoleMap(w.adapter,
                                    SelectSeq(userRoles, LAMBDA e : e.value.roleId # id))
         IN  Result([w EXCEPT !.adapter = M_setRoleMap(a1, MapDelete(roles, id))],
                    Ok(MapHas(roles, id)))

\* MemoryAdapter.assignRole: the existence check, over the live Maps and the
\* transaction's
M_userExists(a, userId) ==
  MapHas(a.users, userId)
    \/ (a.transactionData # <<>> /\ MapHas(a.transactionData[1].users, userId))
M_roleExists(a, roleId) ==
  MapHas(a.roles, roleId)
    \/ (a.transactionData # <<>> /\ MapHas(a.transactionData[1].roles, roleId))

\* MemoryAdapter.assignRole
M_assignRole(w, userId, roleId) ==
  IF validateId(userId) \/ validateId(roleId)
    THEN Result(w, Err("Validation failed"))
    ELSE IF ~M_userExists(w.adapter, userId) \/ ~M_roleExists(w.adapter, roleId)
      THEN Result(w, Err("User or role not found"))
      ELSE LET key == userId \o ":" \o roleId
               userRoles == M_getUserRoleMap(w.adapter)
           IN  IF MapHas(userRoles, key)
                 THEN Result(w, Ok(MapGet(userRoles, key)[1]))
                 ELSE LET userRole == [userId |-> userId, roleId |-> roleId,
                                       createdAt |-> NewDate(w.clock)]
                      IN  Result([w EXCEPT !.adapter =
                                    M_setUserRoleMap(w.adapter,
                                                     MapSet(userRoles, key, userRole))],
                                 Ok(userRole))

\* removeRole that reports a removal whether or not the key was there
M_removeRole_alwaysTrue(w, userId, roleId) ==
  IF validateId(userId) \/ validateId(roleId)
    THEN Result(w, Err("Validation failed"))
    ELSE LET key == userId \o ":" \o roleId
             userRoles == M_getUserRoleMap(w.adapter)
         IN  Result([w EXCEPT !.adapter =
                       M_setUserRoleMap(w.adapter, MapDelete(userRoles, key))],
                    Ok(TRUE))

\* MemoryAdapter.removeRole
M_removeRole(w, userId, roleId) ==
  IF validateId(userId) \/ validateId(roleId)
    THEN Result(w, Err("Validation failed"))
    ELSE LET key == userId \o ":" \o roleId
             userRoles == M_getUserRoleMap(w.adapter)
         IN  Result([w EXCEPT !.adapter =
                       M_setUserRoleMap(w.adapter, MapDelete(userRoles, key))],
                    Ok(MapHas(userRoles, key)))

\* new Set(ids) kept as an array: the first occurrence of each, in order
Dedup(s) == SelectSeq([i \in 1..Len(s) |-> <<i, s[i]>>],
                      LAMBDA p : \A j \in 1..(p[1] - 1) : s[j] # p[2])

\* MemoryAdapter.getUserRoles
M_getUserRoles(w, userId) ==
  IF validateId(userId)
    THEN Result(w, Err("Validation failed"))
    ELSE LET userRoles == MapValues(M_getUserRoleMap(w.adapter))
             roles == M_getRoleMap(w.adapter)
             mine == SelectSeq(userRoles, LAMBDA ur : ur.userId = userId)
             roleIds == Dedup([i \in 1..Len(mine) |-> mine[i].roleId])
             found == SelectSeq(roleIds, LAMBDA p : MapHas(roles, p[2]))
         IN  Result(w, Ok([i \in 1..Len(found) |-> MapGet(roles, found[i][2])[1]]))

\* MemoryAdapter.getRoleUsers
M_getRoleUsers(w, roleId) ==
  IF validateId(roleId)
    THEN Result(w, Err("Validation failed"))
    ELSE LET userRoles == MapValues(M_getUserRoleMap(w.adapter))
             users == M_getUserMap(w.adapter)
             mine == SelectSeq(userRoles, LAMBDA ur : ur.roleId = roleId)
             userIds == Dedup([i \in 1..Len(mine) |-> mine[i].userId])
             found == SelectSeq(userIds, LAMBDA p : MapHas(users, p[2]))
         IN  Result(w, Ok([i \in 1..Len(found) |-> MapGet(users, found[i][2])[1]]))

\* ------------------------------------------------------- FileSystemAdapter

\* JSON.stringify of an entity: every Date becomes its ISO-8601 string
JsonEntity(e) ==
  [f \in DOMAIN e |-> IF f \in {"createdAt", "updatedAt"} THEN ToISOString(e[f]) ELSE e[f]]

\* JSON.stringify(data): the document { users, roles, userRoles }
JSONstringify(data) ==
  [users |-> [i \in 1..Len(data.users) |-> JsonEntity(data.users[i])],
   roles |-> [i \in 1..Len(data.roles) |-> JsonEntity(data.roles[i])],
   userRoles |-> [i \in 1..Len(data.userRoles) |-> JsonEntity(data.userRoles[i])]]

\* JSON.parse(text): the objects of the document, its strings left strings
JSONparse(text) ==
  [users |-> text.users, roles |-> text.roles, userRoles |-> text.userRoles]

\* new FileSystemAdapter()
NewFileSystemAdapter ==
  [class |-> "FileSystemAdapter",
   data |-> [users |-> <<>>, roles |-> <<>>, userRoles |-> <<>>],
   inTransaction |-> FALSE, transactionData |-> <<>>]

\* FileSystemAdapter.saveData: the whole of this.data written to the file by
\* one fs.writeFile
F_saveData(w) ==
  [w EXCEPT !.file = <<JSONstringify(w.adapter.data)>>, !.writes = @ + 1]

\* saveData unless a transaction is open
F_saveUnlessInTransaction(w) == IF w.adapter.inTransaction THEN w ELSE F_saveData(w)

\* a load that leaves the dates of the document the strings they are
F_reviveDates_leavesStrings(d) == d

\* FileSystemAdapter.initialize: the dates of a loaded document turned back
\* into Date objects
F_reviveDates(d) ==
  [users |-> [i \in 1..Len(d.users) |->
                Merge(d.users[i], [createdAt |-> ParseDate(d.users[i].createdAt),
                                   updatedAt |-> ParseDate(d.users[i].updatedAt)])],
   roles |-> [i \in 1..Len(d.roles) |->
                Merge(d.roles[i], [createdAt |-> ParseDate(d.roles[i].createdAt),
                                   updatedAt |-> ParseDate(d.roles[i].updatedAt)])],
   userRoles |-> [i \in 1..Len(d.userRoles) |->
                Merge(d.userRoles[i],
                      [createdAt |-> ParseDate(d.userRoles[i].createdAt)])]]

\* FileSystemAdapter.initialize, the data directory being the one the adapter
\* was constructed with: an absent file (ENOENT) is answered by saveData
F_initialize(w) ==
  IF w.file = <<>>
    THEN Result(F_saveData(w), Ok("void"))
    ELSE Result([w EXCEPT !.adapter.data = F_reviveDates(JSONparse(w.file[1]))],
                Ok("void"))

\* FileSystemAdapter.shutdown
F_shutdown(w) == Result(F_saveData(w), Ok("void"))

\* FileSystemAdapter.beginTransaction
F_beginTransaction(w) ==
  LET a == w.adapter
  IN  IF a.inTransaction
        THEN Result(w, Err("Transaction already in progress"))
        ELSE Result([w EXCEPT !.adapter =
                       [a EXCEPT !.inTransaction = TRUE,
                                 !.transactionData =
                                    <<JSONparse(JSONstringify(a.data))>>]],
                    Ok("void"))

\* a commit that saves before and after it closes the transaction
F_commit_savesTwice(w) ==
  IF ~w.adapter.inTransaction
    THEN Result(w, Err("No transaction in progress"))
    ELSE Result(F_saveData([F_saveData(w) EXCEPT !.adapter.inTransaction = FALSE,
                                                 !.adapter.transactionData = <<>>]),
                Ok("void"))

\* a commit that does not look at inTransaction
F_commit_unguarded(w) ==
  Result([F_saveData(w) EXCEPT !.adapter.inTransaction = FALSE,
                               !.adapter.transactionData = <<>>],
         Ok("void"))

\* FileSystemAdapter.commit
F_commit(w) ==
  IF ~w.adapter.inTransaction
    THEN Result(w, Err("No transaction in progress"))
    ELSE Result([F_saveData(w) EXCEPT !.adapter.inTransaction = FALSE,
                                      !.adapter.transactionData = <<>>],
                Ok("void"))

\* FileSystemAdapter.rollback
F_rollback(w) ==
  LET a == w.adapter
  IN  IF ~a.inTransaction \/ a.transactionData = <<>>
        THEN Result(w, Err("No transaction in progress"))
        ELSE Result([w EXCEPT !.adapter =
                       [a EXCEPT !.data = a.transactionData[1],
                                 !.inTransaction = FALSE,
                                 !.transactionData = <<>>]],
                    Ok("void"))

\* FileSystemAdapter.createUser
F_createUser(w, userData) ==
  IF validateUser(userData) # <<>>
    THEN Result(w, Err("Validation failed"))
    ELSE LET id == generate(w.counter + 1)
             now == NewDate(w.clock)
             user == Merge(userData, [id |-> id, createdAt |-> now, updatedAt |-> now])
         IN  Result(F_saveUnlessInTransaction(
                      [w EXCEPT !.counter = w.counter + 1,
                                !.adapter.data.users = Append(@, user)]),
                    Ok(user))

\* FileSystemAdapter.getUserById
F_getUserById(w, id) ==
  IF validateId(id)
    THEN Result(w, Err("Validation failed"))
    ELSE LET users == w.adapter.data.users
             i == FindIndex([k \in 1..Len(users) |-> users[k].id = id])
         IN  Result(w, Ok(IF i = 0 THEN <<>> ELSE <<users[i]>>))

\* updateUser that persists the merged record before validating it
F_updateUser_persistsFirst(w, id, userData) ==
  IF validateId(id)
    THEN Result(w, Err("Validation failed"))
    ELSE LET users == w.adapter.data.users
             userIndex == FindIndex([k \in 1..Len(users) |-> users[k].id = id])
         IN  IF userIndex = 0
               THEN Result(w, Ok(<<>>))
               ELSE LET updatedUser == Merge(Merge(users[userIndex], userData),
                                             [updatedAt |-> NewDate(w.clock)])
                        w2 == F_saveUnlessInTransaction(
                                [w EXCEPT !.adapter.data.users[userIndex] = updatedUser])
                    IN  IF validateUser(updatedUser) # <<>>
                          THEN Result(w2, Err("Validation failed"))
                          ELSE Result(w2, Ok(<<updatedUser>>))

\* FileSystemAdapter.updateUser
F_updateUser(w, id, userData) ==
  IF validateId(id)
    THEN Result(w, Err("Validation failed"))
    ELSE LET users == w.adapter.data.users
             userIndex == FindIndex([k \in 1..Len(users) |-> users[k].id = id])
         IN  IF userIndex = 0
               THEN Result(w, Ok(<<>>))
               ELSE LET updatedUser == Merge(Merge(users[userIndex], userData),
                                             [updatedAt |-> NewDate(w.clock)])
                    IN  IF validateUser(updatedUser) # <<>>
                          THEN Result(w, Err("Validation failed"))
                          ELSE Result(F_saveUnlessInTransaction(
                                        [w EXCEPT !.adapter.data.users[userIndex] =
                                                     updatedUser]),
                                      Ok(<<updatedUser>>))

\* FileSystemAdapter.deleteUser
F_deleteUser(w, id) ==
  IF validateId(id)
    THEN Result(w, Err("Validation failed"))
    ELSE LET users == w.adapter.data.users
             userIndex == FindIndex([k \in 1..Len(users) |-> users[k].id = id])
         IN  IF userIndex = 0
               THEN Result(w, Ok(FALSE))
               ELSE Result(F_saveUnlessInTransaction(
                             [w EXCEPT !.adapter.data.userRoles =
                                          SelectSeq(@, LAMBDA ur : ur.userId # id),
                                       !.adapter.data.users = RemoveAt(@, userIndex)]),
                           Ok(TRUE))

\* FileSystemAdapter.createRole
F_createRole(w, roleData) ==
  IF validateRole(roleData) # <<>>
    THEN Result(w, Err("Validation failed"))
    ELSE LET id == generate(w.counter + 1)
             now == NewDate(w.clock)
             role == Merge(roleData, [id |-> id, createdAt |-> now, updatedAt |-> now])
         IN  Result(F_saveUnlessInTransaction(
                      [w EXCEPT !.counter = w.counter + 1,
                                !.adapter.data.roles = Append(@, role)]),
                    Ok(role))

\* FileSystemAdapter.getRoleById
F_getRoleById(w, id) ==
  IF validateId(id)
    THEN Result(w, Err("Validation failed"))
    ELSE LET roles == w.adapter.data.roles
             i == FindIndex([k \in 1..Len(roles) |-> roles[k].id = id])
         IN  Result(w, Ok(IF i = 0 THEN <<>> ELSE <<roles[i]>>))

\* FileSystemAdapter.updateRole
F_updateRole(w, id, roleData) ==
  IF validateId(id)
    THEN Result(w, Err("Validation failed"))
    ELSE LET roles == w.adapter.data.roles
             roleIndex == FindIndex([k \in 1..Len(roles) |-> roles[k].id = id])
         IN  IF roleIndex = 0
               THEN Result(w, Ok(<<>>))
               ELSE LET updatedRole == Merge(Merge(roles[roleIndex], roleData),
                                             [updatedAt |-> NewDate(w.clock)])
                    IN  IF validateRole(updatedRole) # <<>>
                          THEN Result(w, Err("Validation failed"))
                          ELSE Result(F_saveUnlessInTransaction(
                                        [w EXCEPT !.adapter.data.roles[roleIndex] =
                                                     updatedRole]),
                                      Ok(<<updatedRole>>))

\* FileSystemAdapter.deleteRole
F_deleteRole(w, id) ==
  IF validateId(id)
    THEN Result(w, Err("Validation failed"))
    ELSE LET roles == w.adapter.data.roles
             roleIndex == FindIndex([k \in 1..Len(roles) |-> roles[k].id = id])
         IN  IF roleIndex = 0
               THEN Result(w, Ok(FALSE))
               ELSE Result(F_saveUnlessInTransaction(
                             [w EXCEPT !.adapter.data.userRoles =
                                          SelectSeq(@, LAMBDA ur : ur.roleId # id),
                                       !.adapter.data.roles = RemoveAt(@, roleIndex)]),
                           Ok(TRUE))

\* FileSystemAdapter.assignRole
F_assignRole(w, userId, roleId) ==
  IF validateId(userId) \/ validateId(roleId)
    THEN Result(w, Err("Validation failed"))
    ELSE LET d == w.adapter.data
             userExists == \E i \in 1..Len(d.users) : d.users[i].id = userId
             roleExists == \E i \in 1..Len(d.roles) : d.roles[i].id = roleId
             existing == FindIndex([k \in 1..Len(d.userRoles) |->
                                     d.userRoles[k].userId = userId
                                       /\ d.userRoles[k].roleId = roleId])
         IN  IF ~userExists \/ ~roleExists
               THEN Result(w, Err("User or role not found"))
               ELSE IF existing # 0
                 THEN Result(w, Ok(d.userRoles[existing]))
                 ELSE LET userRole == [userId |-> userId, roleId |-> roleId,
                                       createdAt |-> NewDate(w.clock)]
                      IN  Result(F_saveUnlessInTransaction(
                                   [w EXCEPT !.adapter.data.userRoles =
                                                Append(@, userRole)]),
                                 Ok(userRole))

\* FileSystemAdapter.removeRole
F_removeRole(w, userId, roleId) ==
  IF validateId(userId) \/ validateId(roleId)
    THEN Result(w, Err("Validation failed"))
    ELSE LET before == w.adapter.data.userRoles
             after == SelectSeq(before,
                                LAMBDA ur : ~(ur.userId = userId /\ ur.roleId = roleId))
             removed == Len(after) < Len(before)
             w1 == [w EXCEPT !.adapter.data.userRoles = after]
         IN  Result(IF removed THEN F_saveUnlessInTransaction(w1) ELSE w1, Ok(removed))

\* FileSystemAdapter.getUserRoles
F_getUserRoles(w, userId) ==
  IF validateId(userId)
    THEN Result(w, Err("Validation failed"))
    ELSE LET d == w.adapter.data
             roleIds == {d.userRoles[i].roleId :
                           i \in {j \in 1..Len(d.userRoles) : d.userRoles[j].userId = userId}}
         IN  Result(w, Ok(SelectSeq(d.roles, LAMBDA role : role.id \in roleIds)))

\* FileSystemAdapter.getRoleUsers
F_getRoleUsers(w, roleId) ==
  IF validateId(roleId)
    THEN Result(w, Err("Validation failed"))
    ELSE LET d == w.adapter.data
             userIds == {d.userRoles[i].userId :
                           i \in {j \in 1..Len(d.userRoles) : d.userRoles[j].roleId = roleId}}
         IN  Result(w, Ok(SelectSeq(d.users, LAMBDA user : user.id \in userIds)))

\* ------------------------------------------------- list query (getUsers/getRoles)

\* QueryOptions is a function whose domain is a subset of
\* {"filter", "sort", "limit", "offset"}: filter is a function field -> value,
\* sort the entries of the sort object in their order, <<field, "asc"|"desc">>.

\* the strings the model sorts by, in the order of the JS operator <
StringOrder == <<"", "admin", "alice", "bob", "d", "ops">>
StringRank(x) == CHOOSE i \in 1..Len(StringOrder) : StringOrder[i] = x

\* aValue < bValue for the values of field key.  Two Dates compare by instant
\* and two ISO-8601 strings alike; a Date and a string compare as a number
\* and NaN, which is false either way.
JsLess(key, x, y) ==
  IF key \in {"createdAt", "updatedAt"}
    THEN x.rep = y.rep /\ x.ms < y.ms
    ELSE StringRank(x) < StringRank(y)

\* the value undefined, which reading an absent property yields and which a
\* caller can also give as the value of a filter entry
Undefined == "<undefined>"

\* user[key]
Field(item, key) == IF key \in DOMAIN item THEN item[key] ELSE Undefined

\* the filter callback: user[key] === value for every entry of options.filter
MatchesFilter(item, filter) ==
  \A key \in DOMAIN filter : Field(item, key) = filter[key]

\* "Apply filter"
ApplyFilter(items, options) ==
  IF "filter" \in DOMAIN options
    THEN SelectSeq(items, LAMBDA item : MatchesFilter(item, options.filter))
    ELSE items

\* the sort callback: -1, 0 or 1, decided by the first key on which both
\* records have a value and the values differ
RECURSIVE Compare(_, _, _)
Compare(a, b, sort) ==
  IF sort = <<>>
    THEN 0
    ELSE LET key == sort[1][1]
             order == sort[1][2]
         IN  IF key \in DOMAIN a /\ key \in DOMAIN b /\ JsLess(key, a[key], b[key])
               THEN (IF order = "asc" THEN -1 ELSE 1)
               ELSE IF key \in DOMAIN a /\ key \in DOMAIN b /\ JsLess(key, b[key], a[key])
                 THEN (IF order = "asc" THEN 1 ELSE -1)
                 ELSE Compare(a, b, Tail(sort))

\* Array.prototype.sort(cmp): a stable sort, by insertion
RECURSIVE InsertSorted(_, _, _)
InsertSorted(sorted, x, sort) ==
  IF sorted = <<>>
    THEN <<x>>
    ELSE LET last == sorted[Len(sorted)]
         IN  IF Compare(last, x, sort) > 0
               THEN Append(InsertSorted(SubSeq(sorted, 1, Len(sorted) - 1), x, sort), last)
               ELSE Append(sorted, x)

RECURSIVE StableSort(_, _)
StableSort(items, sort) ==
  IF items = <<>>
    THEN <<>>
    ELSE InsertSorted(StableSort(SubSeq(items, 1, Len(items) - 1), sort),
                      items[Len(items)], sort)

\* "Apply sort"
ApplySort(items, options) ==
  IF "sort" \in DOMAIN options THEN StableSort(items, options.sort) ELSE items

\* "Apply pagination": `if (options?.limit)` is false for an absent limit and for 0
ApplyPagination(items, options) ==
  IF "limit" \in DOMAIN options /\ options.limit # 0
    THEN LET offset == IF "offset" \in DOMAIN options THEN options.offset ELSE 0
         IN  Slice(items, offset, offset + options.limit)
    ELSE items

\* the body the four list operations share: total is taken from the whole
\* collection, then filter, sort and pagination are applied
ListQuery(all, options) ==
  [items |-> ApplyPagination(ApplySort(ApplyFilter(all, options), options), options),
   total |-> Len(all)]

\* MemoryAdapter.getUsers / getRoles
M_getUsers(w, options) ==
  Result(w, Ok(ListQuery(MapValues(M_getUserMap(w.adapter)), options)))
M_getRoles(w, options) ==
  Result(w, Ok(ListQuery(MapValues(M_getRoleMap(w.adapter)), options)))

\* FileSystemAdapter.getUsers / getRoles
F_getUsers(w, options) == Result(w, Ok(ListQuery(w.adapter.data.users, options)))
F_getRoles(w, options) == Result(w, Ok(ListQuery(w.adapter.data.roles, options)))

\* MemoryAdapter.initialize / shutdown: nothing to do
M_initialize(w) == Result(w, Ok("void"))
M_shutdown(w) == Result(w, Ok("void"))

\* ------------------------------------------------- StorageAdapter (the contract)

\* A call through the StorageAdapter interface runs the method of the
\* adapter's class.
IsMemory(w) == w.adapter.class = "MemoryAdapter"

initialize(w) == IF IsMemory(w) THEN M_initialize(w) ELSE F_initialize(w)
shutdown(w) == IF IsMemory(w) THEN M_shutdown(w) ELSE F_shutdown(w)
beginTransaction(w) == IF IsMemory(w) THEN M_beginTransaction(w) ELSE F_beginTransaction(w)
commit(w) == IF IsMemory(w) THEN M_commit(w) ELSE F_commit(w)
rollback(w) == IF IsMemory(w) THEN M_rollback(w) ELSE F_rollback(w)
createUser(w, d) == IF IsMemory(w) THEN M_createUser(w, d) ELSE F_createUser(w, d)
getUserById(w, id) == IF IsMemory(w) THEN M_getUserById(w, id) ELSE F_getUserById(w, id)
getUsers(w, o) == IF IsMemory(w) THEN M_getUsers(w, o) ELSE F_getUsers(w, o)
updateUser(w, id, d) == IF IsMemory(w) THEN M_updateUser(w, id, d) ELSE F_updateUser(w, id, d)
deleteUser(w, id) == IF IsMemory(w) THEN M_deleteUser(w, id) ELSE F_deleteUser(w, id)
createRole(w, d) == IF IsMemory(w) THEN M_createRole(w, d) ELSE F_createRole(w, d)
getRoleById(w, id) == IF IsMemory(w) THEN M_getRoleById(w, id) ELSE F_getRoleById(w, id)
getRoles(w, o) == IF IsMemory(w) THEN M_getRoles(w, o) ELSE F_getRoles(w, o)
updateRole(w, id, d) == IF IsMemory(w) THEN M_updateRole(w, id, d) ELSE F_updateRole(w, id, d)
deleteRole(w, id) == IF IsMemory(w) THEN M_deleteRole(w, id) ELSE F_deleteRole(w, id)
assignRole(w, u, r) == IF IsMemory(w) THEN M_assignRole(w, u, r) ELSE F_assignRole(w, u, r)
removeRole(w, u, r) == IF IsMemory(w) THEN M_removeRole(w, u, r) ELSE F_removeRole(w, u, r)
getUserRoles(w, u) == IF IsMemory(w) THEN M_getUserRoles(w, u) ELSE F_getUserRoles(w, u)
getRoleUsers(w, r) == IF IsMemory(w) THEN M_getRoleUsers(w, r) ELSE F_getRoleUsers(w, r)

\* ------------------------------------------------------------- HookManager

\* HookManager.hooks is a Map from event name to the array of its hooks; a
\* hook is [name, callback, priority] and, for the history of the model, reg:
\* the number of the registerHook call that made it.

\* the callbacks the model registers, by what they do with the context object
\* they receive: "tag" returns a fragment, "none" returns undefined, "fail"
\* writes to the object it was given and throws
Callbacks == {"tag", "none", "fail"}

\* two more, registered on the events of the managers: "replace" returns a
\* fragment with another value for every key of the context it received,
\* "spoil" assigns those values to the object it was given and throws
ManagerCallbacks == Callbacks \cup {"replace", "spoil"}

\* the value "replace" and "spoil" put in the place of data[key]: another
\* value of the same kind.  In a context a User | null, a Role | null and
\* the arrays are sequences, `result` is the boolean of a delete or a
\* remove, or the { items, total } of a list.
Replacement(key, data) ==
  CASE key \in {"id", "userId", "roleId"} -> IF data[key] = "id1" THEN "id2" ELSE "id1"
    [] key = "userData" -> [username |-> "eve", email |-> "a@x.io"]
    [] key = "roleData" -> [name |-> "guest"]
    [] key = "options" -> [limit |-> 1]
    [] key \in {"user", "role", "roles", "users"} ->
         IF data[key] = <<>> THEN <<[id |-> "other"]>> ELSE <<>>
    [] key = "userRole" -> [userId |-> "other", roleId |-> "other"]
    [] key = "result" ->
         IF {"id", "userId"} \cap DOMAIN data = {}
           THEN [items |-> <<>>, total |-> 0 - 1]
           ELSE ~data[key]
    [] OTHER -> data[key]

Replaced(data) == [key \in DOMAIN data |-> Replacement(key, data)]

\* the context object after the callback ran on it
CallbackMutation(callback, data) ==
  IF callback = "fail" THEN Merge(data, [touched |-> "fail"])
  ELSE IF callback = "spoil" THEN Replaced(data)
  ELSE data

\* what the callback's promise settles to: Ok(<<fragment>>), Ok(<<>>) for
\* undefined, or a rejection
CallbackResult(callback, data) ==
  IF callback = "tag" THEN Ok(<<[source |-> "tag"]>>)
  ELSE IF callback = "replace" THEN Ok(<<Replaced(data)>>)
  ELSE IF callback = "none" THEN Ok(<<>>)
  ELSE Err("hook failed")

\* the comparator of registerHook's sort: (b.priority || 0) - (a.priority || 0)
HookCompare_ascending(a, b) == a.priority - b.priority

HookCompare(a, b) == b.priority - a.priority

\* Array.prototype.sort(HookCompare): a stable sort, by insertion
RECURSIVE HookInsert(_, _)
HookInsert(sorted, x) ==
  IF sorted = <<>>
    THEN <<x>>
    ELSE LET last == sorted[Len(sorted)]
         IN  IF HookCompare(last, x) > 0
               THEN Append(HookInsert(SubSeq(sorted, 1, Len(sorted) - 1), x), last)
               ELSE Append(sorted, x)

RECURSIVE HookSort(_)
HookSort(arr) ==
  IF arr = <<>>
    THEN <<>>
    ELSE HookInsert(HookSort(SubSeq(arr, 1, Len(arr) - 1)), arr[Len(arr)])

\* HookManager.registerHook(event, callback, priority = 0); priorityArg is
\* <<>> when the argument is left out
H_registerHook(hs, event, callback, priorityArg, reg) ==
  LET m == IF MapHas(hs, event) THEN hs ELSE MapSet(hs, event, <<>>)
      hook == [name |-> event,
               callback |-> callback,
               priority |-> IF priorityArg = <<>> THEN 0 ELSE priorityArg[1],
               reg |-> reg]
  IN  MapSet(m, event, HookSort(Append(MapGet(m, event)[1], hook)))

\* HookManager.removeHook
H_removeHook(hs, event, callback) ==
  IF ~MapHas(hs, event)
    THEN hs
    ELSE LET arr == MapGet(hs, event)[1]
             index == FindIndex([k \in 1..Len(arr) |-> arr[k].callback = callback])
         IN  IF index # 0 THEN MapSet(hs, event, RemoveAt(arr, index)) ELSE hs

\* HookManager.removeAllHooks(event?); eventArg is <<>> when it is left out
H_removeAllHooks(hs, eventArg) ==
  IF eventArg # <<>> /\ eventArg[1] # "" THEN MapDelete(hs, eventArg[1]) ELSE <<>>

\* HookManager.getHooks(event?)
H_getHooks(hs, eventArg) ==
  IF eventArg # <<>> /\ eventArg[1] # ""
    THEN (IF MapHas(hs, eventArg[1]) THEN MapGet(hs, eventArg[1])[1] ELSE <<>>)
    ELSE LET Flat[i \in 0..Len(hs)] == IF i = 0 THEN <<>> ELSE Flat[i - 1] \o hs[i].value
         IN  Flat[Len(hs)]

\* A running executeHooks is [event, data, live, array, index, result, log,
\* given, disturbed]: data is the argument, `hooks` is the Map's array of the event while live is TRUE and
\* the array kept in the field otherwise (the literal [] of `|| []`, or the
\* array removeAllHooks took out of the Map); index is the position of the
\* for-of iterator, result the running context; log (the hooks invoked so
\* far), given (the context each of them was invoked with, as it was at the
\* call) and disturbed (the event's hooks were changed meanwhile) are
\* history.

\* executeHooks up to its loop: `hooks` and the copy of data
H_executeStart(hs, event, data) ==
  [event |-> event, data |-> data, live |-> MapHas(hs, event), array |-> <<>>, index |-> 0,
   result |-> data, log |-> <<>>, given |-> <<>>, disturbed |-> FALSE]

\* the array the loop iterates
H_loopArray(hs, e) == IF e.live THEN MapGet(hs, e.event)[1] ELSE e.array

\* one iteration: the callback is invoked with result, and when its promise
\* has settled a fragment is merged into a new result; undefined and a
\* rejection leave result the object the callback was given
H_executeStep(hs, e) ==
  LET hook == H_loopArray(hs, e)[e.index + 1]
      given == CallbackMutation(hook.callback, e.result)
      hookResult == CallbackResult(hook.callback, e.result)
  IN  [e EXCEPT !.index = @ + 1,
                !.log = Append(@, hook),
                !.given = Append(@, e.result),
                !.result = IF hookResult.ok /\ hookResult.value # <<>>
                             THEN Merge(given, hookResult.value[1])
                             ELSE given]

\* the loop has no further element
H_executeDone(hs, e) == e.index >= Len(H_loopArray(hs, e))

\* executeHooks from its call to its return, no other call of the
\* HookManager running at the awaits of its loop: the returned context is
\* the field result
RECURSIVE H_run(_, _)
H_run(hs, e) == IF H_executeDone(hs, e) THEN e ELSE H_run(hs, H_executeStep(hs, e))

H_executeHooks(hs, event, data) == H_run(hs, H_executeStart(hs, event, data))

\* ------------------------------------- UserManager, RoleManager, the facade

\* A method of a manager runs in the world w with the HookManager's hooks hs
\* and yields [w, ret, pre, args, post]: the world after it, what it returns
\* or throws, and for the history the executeHooks of its pre event, the
\* arguments it called the adapter with, and <<the executeHooks of its post
\* event>>, or <<>> when the adapter threw and the method with it.  In a
\* context a User | null or Role | null is a sequence of at most one record.
Piped(call, pre, args, post) ==
  [w |-> call.w, ret |-> call.ret, pre |-> pre, args |-> args, post |-> post]

\* a createUser that hands the adapter the userData it was called with
UM_createUser_ignoresPreHooks(w, hs, userData) ==
  LET preData == H_executeHooks(hs, "user.preCreate", [userData |-> userData])
      args == <<userData>>
      user == createUser(w, args[1])
  IN  IF user.ret.ok
        THEN Piped(user, preData, args,
                   <<H_executeHooks(hs, "user.postCreate", [user |-> <<user.ret.value>>])>>)
        ELSE Piped(user, preData, args, <<>>)

\* UserManager.createUser
UM_createUser(w, hs, userData) ==
  LET preData == H_executeHooks(hs, "user.preCreate", [userData |-> userData])
      args == <<preData.result.userData>>
      user == createUser(w, args[1])
  IN  IF user.ret.ok
        THEN Piped(user, preData, args,
                   <<H_executeHooks(hs, "user.postCreate", [user |-> <<user.ret.value>>])>>)
        ELSE Piped(user, preData, args, <<>>)

\* UserManager.getUserById
UM_getUserById(w, hs, id) ==
  LET preData == H_executeHooks(hs, "user.preGet", [id |-> id])
      args == <<preData.result.id>>
      user == getUserById(w, args[1])
  IN  IF user.ret.ok
        THEN Piped(user, preData, args,
                   <<H_executeHooks(hs, "user.postGet", [user |-> user.ret.value])>>)
        ELSE Piped(user, preData, args, <<>>)

\* UserManager.getUsers
UM_getUsers(w, hs, options) ==
  LET preData == H_executeHooks(hs, "user.preGetAll", [options |-> options])
      args == <<preData.result.options>>
      result == getUsers(w, args[1])
  IN  IF result.ret.ok
        THEN Piped(result, preData, args,
                   <<H_executeHooks(hs, "user.postGetAll", [result |-> result.ret.value])>>)
        ELSE Piped(result, preData, args, <<>>)

\* UserManager.updateUser
UM_updateUser(w, hs, id, userData) ==
  LET preData == H_executeHooks(hs, "user.preUpdate", [id |-> id, userData |-> userData])
      args == <<preData.result.id, preData.result.userData>>
      user == updateUser(w, args[1], args[2])
  IN  IF user.ret.ok
        THEN Piped(user, preData, args,
                   <<H_executeHooks(hs, "user.postUpdate", [user |-> user.ret.value])>>)
        ELSE Piped(user, preData, args, <<>>)

\* UserManager.deleteUser
UM_deleteUser(w, hs, id) ==
  LET preData == H_executeHooks(hs, "user.preDelete", [id |-> id])
      args == <<preData.result.id>>
      result == deleteUser(w, args[1])
  IN  IF result.ret.ok
        THEN Piped(result, preData, args,
                   <<H_executeHooks(hs, "user.postDelete",
                                    [id |-> id, result |-> result.ret.value])>>)
        ELSE Piped(result, preData, args, <<>>)

\* UserManager.getUserRoles
UM_getUserRoles(w, hs, userId) ==
  LET preData == H_executeHooks(hs, "user.preGetRoles", [userId |-> userId])
      args == <<preData.result.userId>>
      roles == getUserRoles(w, args[1])
  IN  IF roles.ret.ok
        THEN Piped(roles, preData, args,
                   <<H_executeHooks(hs, "user.postGetRoles",
                                    [userId |-> preData.result.userId,
                                     roles |-> roles.ret.value])>>)
        ELSE Piped(roles, preData, args, <<>>)

\* RoleManager.createRole
RM_createRole(w, hs, roleData) ==
  LET preData == H_executeHooks(hs, "role.preCreate", [roleData |-> roleData])
      args == <<preData.result.roleData>>
      role == createRole(w, args[1])
  IN  IF role.ret.ok
        THEN Piped(role, preData, args,
                   <<H_executeHooks(hs, "role.postCreate", [role |-> <<role.ret.value>>])>>)
        ELSE Piped(role, preData, args, <<>>)

\* RoleManager.getRoleById
RM_getRoleById(w, hs, id) ==
  LET preData == H_executeHooks(hs, "role.preGet", [id |-> id])
      args == <<preData.result.id>>
      role == getRoleById(w, args[1])
  IN  IF role.ret.ok
        THEN Piped(role, preData, args,
                   <<H_executeHooks(hs, "role.postGet", [role |-> role.ret.value])>>)
        ELSE Piped(role, preData, args, <<>>)

\* RoleManager.getRoles
RM_getRoles(w, hs, options) ==
  LET preData == H_executeHooks(hs, "role.preGetAll", [options |-> options])
      args == <<preData.result.options>>
      result == getRoles(w, args[1])
  IN  IF result.ret.ok
        THEN Piped(result, preData, args,
                   <<H_executeHooks(hs, "role.postGetAll", [result |-> result.ret.value])>>)
        ELSE Piped(result, preData, args, <<>>)

\* RoleManager.updateRole
RM_updateRole(w, hs, id, roleData) ==
  LET preData == H_executeHooks(hs, "role.preUpdate", [id |-> id, roleData |-> roleData])
      args == <<preData.result.id, preData.result.roleData>>
      role == updateRole(w, args[1], args[2])
  IN  IF role.ret.ok
        THEN Piped(role, preData, args,
                   <<H_executeHooks(hs, "role.postUpdate", [role |-> role.ret.value])>>)
        ELSE Piped(role, preData, args, <<>>)

\* RoleManager.deleteRole
RM_deleteRole(w, hs, id) ==
  LET preData == H_executeHooks(hs, "role.preDelete", [id |-> id])
      args == <<preData.result.id>>
      result == deleteRole(w, args[1])
  IN  IF result.ret.ok
        THEN Piped(result, preData, args,
                   <<H_executeHooks(hs, "role.postDelete",
                                    [id |-> id, result |-> result.ret.value])>>)
        ELSE Piped(result, preData, args, <<>>)

\* RoleManager.getRoleUsers
RM_getRoleUsers(w, hs, roleId) ==
  LET preData == H_executeHooks(hs, "role.preGetUsers", [roleId |-> roleId])
      args == <<preData.result.roleId>>
      users == getRoleUsers(w, args[1])
  IN  IF users.ret.ok
        THEN Piped(users, preData, args,
                   <<H_executeHooks(hs, "role.postGetUsers",
                                    [roleId |-> preData.result.roleId,
                                     users |-> users.ret.value])>>)
        ELSE Piped(users, preData, args, <<>>)

\* UserManagement.assignRole, the facade initialized
UMgmt_assignRole(w, hs, userId, roleId) ==
  LET preData == H_executeHooks(hs, "userRole.preAssign",
                                [userId |-> userId, roleId |-> roleId])
      args == <<preData.result.userId, preData.result.roleId>>
      userRole == assignRole(w, args[1], args[2])
  IN  IF userRole.ret.ok
        THEN Piped(userRole, preData, args,
                   <<H_executeHooks(hs, "userRole.postAssign",
                                    [userRole |-> userRole.ret.value])>>)
        ELSE Piped(userRole, preData, args, <<>>)

\* UserManagement.removeRole, the facade initialized
UMgmt_removeRole(w, hs, userId, roleId) ==
  LET preData == H_executeHooks(hs, "userRole.preRemove",
                                [userId |-> userId, roleId |-> roleId])
      args == <<preData.result.userId, preData.result.roleId>>
      result == removeRole(w, args[1], args[2])
  IN  IF result.ret.ok
        THEN Piped(result, preData, args,
                   <<H_executeHooks(hs, "userRole.postRemove",
                                    [userId |-> preData.result.userId,
                                     roleId |-> preData.result.roleId,
                                     result |-> result.ret.value])>>)
        ELSE Piped(result, preData, args, <<>>)

\* ------------------------------------------- PluginManager, UserManagement

\* PluginManager.registerBuiltInAdapters: the names the constructor registers
BuiltInAdapters == [n \in {"memory", "file"} |->
                      IF n = "memory" THEN "MemoryAdapter" ELSE "FileSystemAdapter"]

\* new PluginManager()
NewPluginManager == [plugins |-> <<>>, adapters |-> BuiltInAdapters]

\* the names of the registered plugins, in the order of the Map
PluginNames(pm) == {pm.plugins[i].name : i \in 1..Len(pm.plugins)}

\* PluginManager.registerPlugin
PM_registerPlugin(pm, plugin) ==
  IF plugin.name \in PluginNames(pm)
    THEN [pm |-> pm, ret |-> Err("Plugin \"" \o plugin.name \o "\" already registered")]
    ELSE [pm |-> [pm EXCEPT !.plugins = Append(@, plugin)], ret |-> Ok("void")]

\* PluginManager.registerAdapter
PM_registerAdapter(pm, name, class) ==
  IF name \in DOMAIN pm.adapters
    THEN [pm |-> pm, ret |-> Err("Adapter \"" \o name \o "\" already registered")]
    ELSE [pm |-> [pm EXCEPT !.adapters =
                    [n \in DOMAIN @ \cup {name} |-> IF n = name THEN class ELSE @[n]]],
          ret |-> Ok("void")]

\* PluginManager.getAdapter
PM_getAdapter(pm, name) ==
  IF name \in DOMAIN pm.adapters
    THEN Ok(pm.adapters[name])
    ELSE Err("Adapter \"" \o name \o "\" not found")

\* PluginManager.loadAllPlugins: the plugins are initialized in the order of
\* the Map, the first that throws ends the loop
PM_loadAllPlugins(pm) ==
  LET failing == {i \in 1..Len(pm.plugins) : pm.plugins[i].initialize = "throws"}
  IN  IF failing = {}
        THEN Ok("void")
        ELSE LET i == CHOOSE j \in failing : \A k \in failing : j <= k
             IN  Err("Failed to initialize plugin \"" \o pm.plugins[i].name \o "\"")

\* PluginManager.unloadAllPlugins: each plugin is shut down and deleted, in
\* the order of the Map; the first that throws ends the loop and stays
RECURSIVE PM_unloadAllPlugins(_)
PM_unloadAllPlugins(pm) ==
  IF pm.plugins = <<>>
    THEN [pm |-> pm, ret |-> Ok("void")]
    ELSE IF Head(pm.plugins).shutdown = "throws"
      THEN [pm |-> pm,
            ret |-> Err("Failed to unload plugin \"" \o Head(pm.plugins).name \o "\"")]
      ELSE PM_unloadAllPlugins([pm EXCEPT !.plugins = Tail(@)])

\* this.adapter = null
NullAdapter == [class |-> "null"]

\* new AdapterClass(this.config)
NewAdapter(class) ==
  IF class = "MemoryAdapter" THEN NewMemoryAdapter ELSE NewFileSystemAdapter

\* new UserManagement(config): the facade without its adapter (this.adapter
\* is the adapter of the world, NullAdapter) and without its managers
NewUserManagement(config) ==
  [config |-> config, pluginManager |-> NewPluginManager, initialized |-> FALSE,
   managers |-> FALSE]

\* the outcome of a method of the facade: the facade, the world and what
\* the method returned or threw
Facade(um, w, ret) == [um |-> um, w |-> w, ret |-> ret]

\* UserManagement.loadAdapter: the name of the configuration, 'memory' when
\* there is none
AdapterName(config) ==
  IF "adapter" \in DOMAIN config /\ config.adapter # "" THEN config.adapter ELSE "memory"

\* UserManagement.initialize
UMgmt_initialize(um, w) ==
  IF um.initialized
    THEN Facade(um, w, Ok("void"))
    ELSE LET AdapterClass == PM_getAdapter(um.pluginManager, AdapterName(um.config))
         IN  IF ~AdapterClass.ok
               THEN Facade(um, w, AdapterClass)
               ELSE LET loaded == [w EXCEPT !.adapter = NewAdapter(AdapterClass.value)]
                        plugins == PM_loadAllPlugins(um.pluginManager)
                        r == initialize(loaded)
                    IN  IF ~plugins.ok
                          THEN Facade(um, loaded, plugins)
                          ELSE IF ~r.ret.ok
                            THEN Facade(um, r.w, r.ret)
                            ELSE Facade([um EXCEPT !.managers = TRUE,
                                                   !.initialized = TRUE],
                                        r.w, Ok("void"))

\* UserManagement.shutdown
UMgmt_shutdown(um, w) ==
  IF ~um.initialized
    THEN Facade(um, w, Ok("void"))
    ELSE LET r == shutdown(w)
             unloaded == PM_unloadAllPlugins(um.pluginManager)
         IN  IF ~r.ret.ok
               THEN Facade(um, r.w, r.ret)
               ELSE IF ~unloaded.ret.ok
                 THEN Facade([um EXCEPT !.pluginManager = unloaded.pm], r.w, unloaded.ret)
                 ELSE Facade([um EXCEPT !.pluginManager = unloaded.pm,
                                        !.initialized = FALSE,
                                        !.managers = FALSE],
                             [r.w EXCEPT !.adapter = NullAdapter], Ok("void"))

\* UserManagement.ensureInitialized
UMgmt_ensureInitialized(um) ==
  IF um.initialized
    THEN Ok("void")
    ELSE Err("UserManagement not initialized. Call initialize() first.")

\* a method of the facade that ran no hook
Unpiped(w, ret) == [w |-> w, ret |-> ret, piped |-> <<>>]

\* a method of a manager or of the facade that ran its pipeline
PipedCall(op, input, r) ==
  [w |-> r.w, ret |-> r.ret,
   piped |-> <<[op |-> op, input |-> input, pre |-> r.pre, args |-> r.args,
                post |-> r.post]>>]

\* reading a property of null
NullError == Err("TypeError: Cannot read properties of null")

\* UserManagement.users.createUser(userData): the getter, then the method
UMgmt_users_createUser(um, w, hs, userData) ==
  IF ~UMgmt_ensureInitialized(um).ok
    THEN Unpiped(w, UMgmt_ensureInitialized(um))
    ELSE IF ~um.managers
      THEN Unpiped(w, NullError)
      ELSE PipedCall("users.createUser", <<userData>>, UM_createUser(w, hs, userData))

\* UserManagement.roles.createRole(roleData): the getter, then the method
UMgmt_roles_createRole(um, w, hs, roleData) ==
  IF ~UMgmt_ensureInitialized(um).ok
    THEN Unpiped(w, UMgmt_ensureInitialized(um))
    ELSE IF ~um.managers
      THEN Unpiped(w, NullError)
      ELSE PipedCall("roles.createRole", <<roleData>>, RM_createRole(w, hs, roleData))

\* UserManagement.assignRole(userId, roleId), guard included
UMgmt_guarded_assignRole(um, w, hs, userId, roleId) ==
  IF ~UMgmt_ensureInitialized(um).ok
    THEN Unpiped(w, UMgmt_ensureInitialized(um))
    ELSE IF w.adapter = NullAdapter
      THEN LET preData == H_executeHooks(hs, "userRole.preAssign",
                                         [userId |-> userId, roleId |-> roleId])
           IN  PipedCall("assignRole", <<userId, roleId>>,
                         Piped(Result(w, NullError), preData,
                               <<preData.result.userId, preData.result.roleId>>, <<>>))
      ELSE PipedCall("assignRole", <<userId, roleId>>,
                     UMgmt_assignRole(w, hs, userId, roleId))

\* UserManagement.beginTransaction / commit / rollback
UMgmt_transaction(um, w, op) ==
  IF ~UMgmt_ensureInitialized(um).ok
    THEN Unpiped(w, UMgmt_ensureInitialized(um))
    ELSE IF w.adapter = NullAdapter
      THEN Unpiped(w, NullError)
      ELSE LET r == CASE op = "beginTransaction" -> beginTransaction(w)
                      [] op = "commit" -> commit(w)
                      [] op = "rollback" -> rollback(w)
           IN  Unpiped(r.w, r.ret)

\* UserManagement.updateConfig
UMgmt_updateConfig(um, config) ==
  [um EXCEPT !.config = [k \in DOMAIN @ \cup DOMAIN config |->
                           IF k \in DOMAIN config THEN config[k] ELSE @[k]]]

\* ------------------------------------------------------------ state machine

VARIABLES
  adapter,   \* the adapter instance: a MemoryAdapter or a FileSystemAdapter
  file,      \* data.json of the data directory: <<>> (absent) or <<document>>
  counter,   \* IdGenerator.counter
  clock,     \* the instant new Date() reads
  calls,     \* steps taken so far
  ret,       \* the last call: [op, out], out = Ok(value) or Err(message)
  preTx,     \* history: what the reads saw when the transaction was begun
  hooks,     \* HookManager.hooks
  regs,      \* history: the number of registerHook calls made
  exec,      \* the executeHooks call in progress: <<>> or <<its state>>
  hookRet,   \* what executeHooks returned, when it was the last call to return:
             \* <<>> or <<[event, result, log, ...]>>
  piped,     \* history: the last call of a manager or of the facade, <<>> or
             \* <<[op, input, pre, args, post]>>
  facade,    \* the UserManagement instance: <<>> where the adapter or the
             \* HookManager is used alone, else <<[config, pluginManager,
             \* initialized, managers]>>
  sites,     \* two call sites calling beginTransaction on the adapter without
             \* awaiting each other: <<>> or <<[start, site]>>, start the
             \* adapter when the first call was issued, site[s] the position
             \* of call s in its body and what it settled with
  sorting,   \* three records and a sort specification given to the sort
             \* callback: <<>> or <<[items, sort, cmp, sorted]>>, cmp what the
             \* callback returned for each pair, sorted what the sort returned
  twin       \* a second adapter instance, in a process and a directory of its
             \* own, given the calls the first is given: <<>> or <<[adapter,
             \* file, counter, out]>>, out what its last call returned

adapterVars == <<adapter, file, counter, clock, ret, preTx>>
hookVars == <<hooks, regs, exec, hookRet, piped>>
vars ==
  <<adapter, file, counter, clock, calls, ret, preTx, hooks, regs, exec, hookRet, piped,
    facade, twin, sites, sorting>>

\* the world a call is made in; writes counts the fs.writeFile calls made
\* from here on
W ==
  [adapter |-> adapter, file |-> file, counter |-> counter, clock |-> clock,
   writes |-> 0]

\* the associations the operations read: getUserRoleMap() / _getUserRoles()
UserRolesOf(w) ==
  IF IsMemory(w) THEN MapValues(M_getUserRoleMap(w.adapter)) ELSE w.adapter.data.userRoles

\* the three collections as the operations see them
Visible(w) ==
  [users |-> getUsers(w, <<>>).ret.value.items,
   roles |-> getRoles(w, <<>>).ret.value.items,
   userRoles |-> UserRolesOf(w)]

\* the inputs the calls are made with: the empty id and the ids handed out so
\* far, valid and invalid entity data, partial records (an id among them)
IdsOf(w) == {generate(c) : c \in 1..w.counter}
IdInputs(w) == {""} \cup IdsOf(w)
UserInputs ==
  {[username |-> "alice", email |-> "a@x.io"],
   [username |-> "", email |-> "a@x.io"],
   [username |-> "alice", email |-> "bad"]}
UserPartials(w) == {[username |-> "bob"], [username |-> ""]} \cup {[id |-> i] : i \in IdsOf(w)}
RoleInputs == {[name |-> "admin"], [name |-> ""]}
RolePartials(w) == {[name |-> "ops"], [name |-> ""]} \cup {[id |-> i] : i \in IdsOf(w)}
ListOptions ==
  {[x \in {} |-> 0],
   [limit |-> 1, offset |-> 1],
   [limit |-> 0],
   [filter |-> [username |-> "bob"]],
   [filter |-> [name |-> "ops"], limit |-> 1]}

Init ==
  /\ adapter \in {NewMemoryAdapter, NewFileSystemAdapter}
  /\ file = <<>>
  /\ counter = 0
  /\ clock = 0
  /\ calls = 0
  /\ ret = [op |-> "new", out |-> Ok("void")]
  /\ preTx = <<>>
  /\ hooks = <<>>
  /\ regs = 0
  /\ exec = <<>>
  /\ hookRet = <<>>
  /\ piped = <<>>
  /\ facade = <<>>
  /\ twin = <<>>
  /\ sites = <<>>
  /\ sorting = <<>>

\* the call op returned or threw r.ret and left the world r.w
Call(op, r) ==
  /\ calls < MaxCalls
  /\ calls' = calls + 1
  /\ adapter' = r.w.adapter
  /\ file' = r.w.file
  /\ counter' = r.w.counter
  /\ ret' = [op |-> op, out |-> r.ret]
  /\ preTx' = IF op = "beginTransaction" /\ r.ret.ok
                THEN <<Visible(W)>>
                ELSE IF r.w.adapter.inTransaction
                        \/ (op \in {"commit", "rollback"} /\ r.ret.ok)
                  THEN preTx
                  ELSE <<>>
  /\ UNCHANGED <<clock, hookVars, facade, twin, sites, sorting>>

\* time passes between two calls
Tick ==
  /\ calls < MaxCalls
  /\ calls' = calls + 1
  /\ clock' = clock + 1
  /\ UNCHANGED <<adapter, file, counter, ret, preTx, hookVars, facade, twin, sites, sorting>>

Initialize == Call("initialize", initialize(W))
Shutdown == Call("shutdown", shutdown(W))
BeginTransaction == Call("beginTransaction", beginTransaction(W))
Commit == Call("commit", commit(W))
Rollback == Call("rollback", rollback(W))
CreateUser == \E d \in UserInputs : Call("createUser", createUser(W, d))
GetUserById == \E id \in IdInputs(W) : Call("getUserById", getUserById(W, id))
GetUsers == \E o \in ListOptions : Call("getUsers", getUsers(W, o))
UpdateUser ==
  \E id \in IdInputs(W), d \in UserPartials(W) : Call("updateUser", updateUser(W, id, d))
DeleteUser == \E id \in IdInputs(W) : Call("deleteUser", deleteUser(W, id))
CreateRole == \E d \in RoleInputs : Call("createRole", createRole(W, d))
GetRoleById == \E id \in IdInputs(W) : Call("getRoleById", getRoleById(W, id))
GetRoles == \E o \in ListOptions : Call("getRoles", getRoles(W, o))
UpdateRole ==
  \E id \in IdInputs(W), d \in RolePartials(W) : Call("updateRole", updateRole(W, id, d))
DeleteRole == \E id \in IdInputs(W) : Call("deleteRole", deleteRole(W, id))
AssignRole ==
  \E u \in IdInputs(W), r \in IdInputs(W) : Call("assignRole", assignRole(W, u, r))
RemoveRole ==
  \E u \in IdInputs(W), r \in IdInputs(W) : Call("removeRole", removeRole(W, u, r))
GetUserRoles == \E u \in IdInputs(W) : Call("getUserRoles", getUserRoles(W, u))
GetRoleUsers == \E r \in IdInputs(W) : Call("getRoleUsers", getRoleUsers(W, r))

Next ==
  \/ Tick
  \/ Initialize
  \/ Shutdown
  \/ BeginTransaction
  \/ Commit
  \/ Rollback
  \/ CreateUser
  \/ GetUserById
  \/ GetUsers
  \/ UpdateUser
  \/ DeleteUser
  \/ CreateRole
  \/ GetRoleById
  \/ GetRoles
  \/ UpdateRole
  \/ DeleteRole
  \/ AssignRole
  \/ RemoveRole
  \/ GetUserRoles
  \/ GetRoleUsers

Spec == Init /\ [][Next]_vars

\* The adapter under its writing calls alone, MaxWrites of them.  A read
\* returns the world it was called in, so the worlds reached here are worlds
\* Spec reaches; the statements that apply further calls to every reached
\* world are checked here.
WriteNext ==
  \/ calls < MaxWrites /\ Tick
  \/ calls < MaxWrites /\ Initialize
  \/ calls < MaxWrites /\ Shutdown
  \/ calls < MaxWrites /\ BeginTransaction
  \/ calls < MaxWrites /\ Commit
  \/ calls < MaxWrites /\ Rollback
  \/ calls < MaxWrites /\ CreateUser
  \/ calls < MaxWrites /\ UpdateUser
  \/ calls < MaxWrites /\ DeleteUser
  \/ calls < MaxWrites /\ CreateRole
  \/ calls < MaxWrites /\ UpdateRole
  \/ calls < MaxWrites /\ DeleteRole
  \/ calls < MaxWrites /\ AssignRole
  \/ calls < MaxWrites /\ RemoveRole

WriteSpec == Init /\ [][WriteNext]_vars

\* an initialized FileSystemAdapter: new FileSystemAdapter() on an empty data
\* directory, then initialize()
DurableInit ==
  /\ LET r == initialize([adapter |-> NewFileSystemAdapter, file |-> <<>>,
                          counter |-> 0, clock |-> 0, writes |-> 0])
     IN  adapter = r.w.adapter /\ file = r.w.file
  /\ counter = 0
  /\ clock = 0
  /\ calls = 0
  /\ ret = [op |-> "initialize", out |-> Ok("void")]
  /\ preTx = <<>>
  /\ hooks = <<>>
  /\ regs = 0
  /\ exec = <<>>
  /\ hookRet = <<>>
  /\ piped = <<>>
  /\ facade = <<>>
  /\ twin = <<>>
  /\ sites = <<>>
  /\ sorting = <<>>

\* the initialized FileSystemAdapter under its writing calls
DurableSpec == DurableInit /\ [][WriteNext]_vars

\* ------------------------------------------- state machine of the HookManager

\* A HookManager of its own: hooks are registered and removed, and
\* executeHooks runs, one call at a time, its loop suspended at the await of
\* each callback, where other calls of the HookManager can run.

Events == {"user.preCreate", "user.postCreate"}
PriorityArgs == {<<>>, <<0>>, <<1>>}
HookData == {[userData |-> "alice"]}

HookInit ==
  /\ adapter = NewMemoryAdapter
  /\ file = <<>>
  /\ counter = 0
  /\ clock = 0
  /\ calls = 0
  /\ ret = [op |-> "new", out |-> Ok("void")]
  /\ preTx = <<>>
  /\ hooks = <<>>
  /\ regs = 0
  /\ exec = <<>>
  /\ hookRet = <<>>
  /\ piped = <<>>
  /\ facade = <<>>
  /\ twin = <<>>
  /\ sites = <<>>
  /\ sorting = <<>>

\* a call of the HookManager is made
HookCall ==
  /\ calls < MaxHookCalls
  /\ calls' = calls + 1
  /\ UNCHANGED <<adapterVars, piped, facade, twin, sites, sorting>>

\* the running executeHooks after the hooks of event were changed
Disturbed(event) ==
  IF exec # <<>> /\ exec[1].event = event
    THEN <<[exec[1] EXCEPT !.disturbed = TRUE]>>
    ELSE exec

RegisterHook ==
  \E event \in Events, callback \in Callbacks, priorityArg \in PriorityArgs :
    /\ HookCall
    /\ hooks' = H_registerHook(hooks, event, callback, priorityArg, regs + 1)
    /\ regs' = regs + 1
    /\ exec' = Disturbed(event)
    /\ hookRet' = <<>>

RemoveHook ==
  \E event \in Events, callback \in Callbacks :
    /\ HookCall
    /\ hooks' = H_removeHook(hooks, event, callback)
    /\ exec' = IF hooks' # hooks THEN Disturbed(event) ELSE exec
    /\ hookRet' = <<>>
    /\ UNCHANGED regs

\* the loop of a running executeHooks keeps the array the Map gave it
RemoveAllHooks ==
  \E eventArg \in {<<>>} \cup {<<event>> : event \in Events} :
    /\ HookCall
    /\ hooks' = H_removeAllHooks(hooks, eventArg)
    /\ exec' = IF exec # <<>> /\ exec[1].live /\ ~MapHas(hooks', exec[1].event)
                 THEN <<[exec[1] EXCEPT !.live = FALSE,
                                        !.array = H_loopArray(hooks, exec[1]),
                                        !.disturbed = TRUE]>>
                 ELSE exec
    /\ hookRet' = <<>>
    /\ UNCHANGED regs

\* what executeHooks returns, with the hooks the event had then
HookReturned(e) ==
  <<[event |-> e.event, data |-> e.data, result |-> e.result, log |-> e.log, given |-> e.given,
     disturbed |-> e.disturbed, registered |-> H_getHooks(hooks, <<e.event>>)]>>

\* executeHooks is called: it returns at once when the event has no hook,
\* and otherwise invokes the first callback and awaits it
ExecuteHooks ==
  \E event \in Events, data \in HookData :
    /\ exec = <<>>
    /\ HookCall
    /\ LET e == H_executeStart(hooks, event, data)
       IN  IF H_executeDone(hooks, e)
             THEN exec' = <<>> /\ hookRet' = HookReturned(e)
             ELSE exec' = <<H_executeStep(hooks, e)>> /\ UNCHANGED hookRet
    /\ UNCHANGED <<hooks, regs>>

\* the awaited callback has settled: the loop invokes the next callback, or
\* executeHooks returns
ExecuteResume ==
  /\ exec # <<>>
  /\ IF H_executeDone(hooks, exec[1])
       THEN exec' = <<>> /\ hookRet' = HookReturned(exec[1])
       ELSE exec' = <<H_executeStep(hooks, exec[1])>> /\ UNCHANGED hookRet
  /\ UNCHANGED <<hooks, regs, calls, adapterVars, piped, facade, twin, sites, sorting>>

HookNext ==
  \/ RegisterHook
  \/ RemoveHook
  \/ RemoveAllHooks
  \/ ExecuteHooks
  \/ ExecuteResume

HookSpec == HookInit /\ [][HookNext]_vars

\* ---------------------------------- state machine of the managers' pipeline

\* An initialized UserManagement: hooks are registered with the default
\* priority and the methods of users, roles and the facade are called one
\* after the other, each running the hooks of its events around its adapter
\* call.

\* the methods, with the events they run and the keys of the pre context
\* their arguments are read from
ManagerOps ==
  {"users.createUser", "users.getUserById", "users.getUsers", "users.updateUser",
   "users.deleteUser", "users.getUserRoles",
   "roles.createRole", "roles.getRoleById", "roles.getRoles", "roles.updateRole",
   "roles.deleteRole", "roles.getRoleUsers",
   "assignRole", "removeRole"}

PreEvent(op) ==
  CASE op = "users.createUser" -> "user.preCreate"
    [] op = "users.getUserById" -> "user.preGet"
    [] op = "users.getUsers" -> "user.preGetAll"
    [] op = "users.updateUser" -> "user.preUpdate"
    [] op = "users.deleteUser" -> "user.preDelete"
    [] op = "users.getUserRoles" -> "user.preGetRoles"
    [] op = "roles.createRole" -> "role.preCreate"
    [] op = "roles.getRoleById" -> "role.preGet"
    [] op = "roles.getRoles" -> "role.preGetAll"
    [] op = "roles.updateRole" -> "role.preUpdate"
    [] op = "roles.deleteRole" -> "role.preDelete"
    [] op = "roles.getRoleUsers" -> "role.preGetUsers"
    [] op = "assignRole" -> "userRole.preAssign"
    [] op = "removeRole" -> "userRole.preRemove"

PostEvent(op) ==
  CASE op = "users.createUser" -> "user.postCreate"
    [] op = "users.getUserById" -> "user.postGet"
    [] op = "users.getUsers" -> "user.postGetAll"
    [] op = "users.updateUser" -> "user.postUpdate"
    [] op = "users.deleteUser" -> "user.postDelete"
    [] op = "users.getUserRoles" -> "user.postGetRoles"
    [] op = "roles.createRole" -> "role.postCreate"
    [] op = "roles.getRoleById" -> "role.postGet"
    [] op = "roles.getRoles" -> "role.postGetAll"
    [] op = "roles.updateRole" -> "role.postUpdate"
    [] op = "roles.deleteRole" -> "role.postDelete"
    [] op = "roles.getRoleUsers" -> "role.postGetUsers"
    [] op = "assignRole" -> "userRole.postAssign"
    [] op = "removeRole" -> "userRole.postRemove"

InputKeys(op) ==
  CASE op = "users.createUser" -> <<"userData">>
    [] op = "roles.createRole" -> <<"roleData">>
    [] op \in {"users.getUsers", "roles.getRoles"} -> <<"options">>
    [] op = "users.updateUser" -> <<"id", "userData">>
    [] op = "roles.updateRole" -> <<"id", "roleData">>
    [] op = "users.getUserRoles" -> <<"userId">>
    [] op = "roles.getRoleUsers" -> <<"roleId">>
    [] op \in {"assignRole", "removeRole"} -> <<"userId", "roleId">>
    [] OTHER -> <<"id">>

\* the key of the post context that holds what the adapter returned
ResultKey(op) ==
  CASE op \in {"users.createUser", "users.getUserById", "users.updateUser"} -> "user"
    [] op \in {"roles.createRole", "roles.getRoleById", "roles.updateRole"} -> "role"
    [] op = "users.getUserRoles" -> "roles"
    [] op = "roles.getRoleUsers" -> "users"
    [] op = "assignRole" -> "userRole"
    [] OTHER -> "result"

\* the method op called with the arguments input
ManagerOp(op, w, hs, input) ==
  CASE op = "users.createUser" -> UM_createUser(w, hs, input[1])
    [] op = "users.getUserById" -> UM_getUserById(w, hs, input[1])
    [] op = "users.getUsers" -> UM_getUsers(w, hs, input[1])
    [] op = "users.updateUser" -> UM_updateUser(w, hs, input[1], input[2])
    [] op = "users.deleteUser" -> UM_deleteUser(w, hs, input[1])
    [] op = "users.getUserRoles" -> UM_getUserRoles(w, hs, input[1])
    [] op = "roles.createRole" -> RM_createRole(w, hs, input[1])
    [] op = "roles.getRoleById" -> RM_getRoleById(w, hs, input[1])
    [] op = "roles.getRoles" -> RM_getRoles(w, hs, input[1])
    [] op = "roles.updateRole" -> RM_updateRole(w, hs, input[1], input[2])
    [] op = "roles.deleteRole" -> RM_deleteRole(w, hs, input[1])
    [] op = "roles.getRoleUsers" -> RM_getRoleUsers(w, hs, input[1])
    [] op = "assignRole" -> UMgmt_assignRole(w, hs, input[1], input[2])
    [] op = "removeRole" -> UMgmt_removeRole(w, hs, input[1], input[2])

\* the adapter method behind op called with the arguments args
AdapterOp(op, w, args) ==
  CASE op = "users.createUser" -> createUser(w, args[1])
    [] op = "users.getUserById" -> getUserById(w, args[1])
    [] op = "users.getUsers" -> getUsers(w, args[1])
    [] op = "users.updateUser" -> updateUser(w, args[1], args[2])
    [] op = "users.deleteUser" -> deleteUser(w, args[1])
    [] op = "users.getUserRoles" -> getUserRoles(w, args[1])
    [] op = "roles.createRole" -> createRole(w, args[1])
    [] op = "roles.getRoleById" -> getRoleById(w, args[1])
    [] op = "roles.getRoles" -> getRoles(w, args[1])
    [] op = "roles.updateRole" -> updateRole(w, args[1], args[2])
    [] op = "roles.deleteRole" -> deleteRole(w, args[1])
    [] op = "roles.getRoleUsers" -> getRoleUsers(w, args[1])
    [] op = "assignRole" -> assignRole(w, args[1], args[2])
    [] op = "removeRole" -> removeRole(w, args[1], args[2])

\* the arguments the methods are called with in the world w: the first
\* identifier the generator hands out, and those handed out so far
ManagerIds(w) == {generate(1)} \cup IdsOf(w)

ManagerListOptions == {[x \in {} |-> 0]}

ManagerInputs(op, w) ==
  CASE op = "users.createUser" -> {<<d>> : d \in UserInputs}
    [] op = "roles.createRole" -> {<<d>> : d \in RoleInputs}
    [] op \in {"users.getUsers", "roles.getRoles"} ->
         {<<o>> : o \in ManagerListOptions}
    [] op = "users.updateUser" -> {<<i, [username |-> "bob"]>> : i \in ManagerIds(w)}
    [] op = "roles.updateRole" -> {<<i, [name |-> "ops"]>> : i \in ManagerIds(w)}
    [] op \in {"assignRole", "removeRole"} ->
         {<<u, r>> : u \in ManagerIds(w), r \in ManagerIds(w)}
    [] OTHER -> {<<i>> : i \in ManagerIds(w)}

\* the hooks the behaviours register: on the events of createUser, callbacks
\* that replace the context, that spoil it and throw, and that do nothing
ManagerEvents == {"user.preCreate", "user.postCreate"}
RegisteredCallbacks == {"replace", "spoil", "none"}

\* UserManagement.initialize(): the adapter of the configuration is built and
\* initialized, on an empty data directory
ManagerInit ==
  /\ \E a \in {NewMemoryAdapter, NewFileSystemAdapter} :
       LET r == initialize([adapter |-> a, file |-> <<>>, counter |-> 0, clock |-> 0,
                              writes |-> 0])
       IN  adapter = r.w.adapter /\ file = r.w.file
  /\ counter = 0
  /\ clock = 0
  /\ calls = 0
  /\ ret = [op |-> "initialize", out |-> Ok("void")]
  /\ preTx = <<>>
  /\ hooks = <<>>
  /\ regs = 0
  /\ exec = <<>>
  /\ hookRet = <<>>
  /\ piped = <<>>
  /\ facade = <<>>
  /\ twin = <<>>
  /\ sites = <<>>
  /\ sorting = <<>>

\* UserManagement.registerHook(event, callback)
ManagerRegisterHook ==
  \E event \in ManagerEvents, callback \in RegisteredCallbacks :
    /\ calls < MaxManagerCalls
    /\ calls' = calls + 1
    /\ hooks' = H_registerHook(hooks, event, callback, <<>>, regs + 1)
    /\ regs' = regs + 1
    /\ piped' = <<>>
    /\ UNCHANGED <<adapterVars, exec, hookRet, facade, twin, sites, sorting>>

\* the method op, called with the arguments input, yielded r
ManagerCall(op, input, r) ==
  /\ calls < MaxManagerCalls
  /\ calls' = calls + 1
  /\ adapter' = r.w.adapter
  /\ file' = r.w.file
  /\ counter' = r.w.counter
  /\ ret' = [op |-> op, out |-> r.ret]
  /\ piped' = <<[op |-> op, input |-> input, pre |-> r.pre, args |-> r.args,
                 post |-> r.post]>>
  /\ UNCHANGED <<clock, preTx, hooks, regs, exec, hookRet, facade, twin, sites, sorting>>

UsersCreateUser ==
  \E d \in UserInputs :
    ManagerCall("users.createUser", <<d>>, UM_createUser(W, hooks, d))
UsersGetUserById ==
  \E id \in ManagerIds(W) :
    ManagerCall("users.getUserById", <<id>>, UM_getUserById(W, hooks, id))
UsersGetUsers ==
  \E o \in ManagerListOptions :
    ManagerCall("users.getUsers", <<o>>, UM_getUsers(W, hooks, o))
UsersUpdateUser ==
  \E id \in ManagerIds(W), d \in {[username |-> "bob"]} :
    ManagerCall("users.updateUser", <<id, d>>, UM_updateUser(W, hooks, id, d))
UsersDeleteUser ==
  \E id \in ManagerIds(W) :
    ManagerCall("users.deleteUser", <<id>>, UM_deleteUser(W, hooks, id))
UsersGetUserRoles ==
  \E id \in ManagerIds(W) :
    ManagerCall("users.getUserRoles", <<id>>, UM_getUserRoles(W, hooks, id))
RolesCreateRole ==
  \E d \in RoleInputs :
    ManagerCall("roles.createRole", <<d>>, RM_createRole(W, hooks, d))
RolesGetRoleById ==
  \E id \in ManagerIds(W) :
    ManagerCall("roles.getRoleById", <<id>>, RM_getRoleById(W, hooks, id))
RolesGetRoles ==
  \E o \in ManagerListOptions :
    ManagerCall("roles.getRoles", <<o>>, RM_getRoles(W, hooks, o))
RolesUpdateRole ==
  \E id \in ManagerIds(W), d \in {[name |-> "ops"]} :
    ManagerCall("roles.updateRole", <<id, d>>, RM_updateRole(W, hooks, id, d))
RolesDeleteRole ==
  \E id \in ManagerIds(W) :
    ManagerCall("roles.deleteRole", <<id>>, RM_deleteRole(W, hooks, id))
RolesGetRoleUsers ==
  \E id \in ManagerIds(W) :
    ManagerCall("roles.getRoleUsers", <<id>>, RM_getRoleUsers(W, hooks, id))
FacadeAssignRole ==
  \E u \in ManagerIds(W), r \in ManagerIds(W) :
    ManagerCall("assignRole", <<u, r>>, UMgmt_assignRole(W, hooks, u, r))
FacadeRemoveRole ==
  \E u \in ManagerIds(W), r \in ManagerIds(W) :
    ManagerCall("removeRole", <<u, r>>, UMgmt_removeRole(W, hooks, u, r))

ManagerNext ==
  \/ ManagerRegisterHook
  \/ UsersCreateUser
  \/ UsersGetUserById
  \/ UsersGetUsers
  \/ UsersUpdateUser
  \/ UsersDeleteUser
  \/ UsersGetUserRoles
  \/ RolesCreateRole
  \/ RolesGetRoleById
  \/ RolesGetRoles
  \/ RolesUpdateRole
  \/ RolesDeleteRole
  \/ RolesGetRoleUsers
  \/ FacadeAssignRole
  \/ FacadeRemoveRole

ManagerSpec == ManagerInit /\ [][ManagerNext]_vars

\* ------------------------------------ state machine of the facade lifecycle

\* A UserManagement from its construction: the configuration is updated,
\* adapters, plugins and hooks are registered, initialize and shutdown are
\* called, and the methods that go to the adapter are called in every state,
\* one call after the other.

ConfiguredNames == {"memory", "file", "fileSystem", "customAdapter", "unknown"}
Configs == {[x \in {} |-> ""]} \cup {[adapter |-> n] : n \in {"memory", "file", "fileSystem"}}
Plugins ==
  {[name |-> "audit", initialize |-> "returns", shutdown |-> "returns"],
   [name |-> "broken", initialize |-> "throws", shutdown |-> "returns"],
   [name |-> "sticky", initialize |-> "returns", shutdown |-> "throws"]}

LifecycleInit ==
  /\ facade \in {<<NewUserManagement(c)>> : c \in Configs}
  /\ adapter = NullAdapter
  /\ file = <<>>
  /\ counter = 0
  /\ clock = 0
  /\ calls = 0
  /\ ret = [op |-> "new", out |-> Ok("void")]
  /\ preTx = <<>>
  /\ hooks = <<>>
  /\ regs = 0
  /\ exec = <<>>
  /\ hookRet = <<>>
  /\ piped = <<>>
  /\ twin = <<>>
  /\ sites = <<>>
  /\ sorting = <<>>

\* the method op of the facade left the facade um and the world w, ran the
\* pipeline p (or none) and returned or threw out
LifecycleCall(op, um, w, out, p) ==
  /\ calls < MaxFacadeCalls
  /\ calls' = calls + 1
  /\ facade' = <<um>>
  /\ adapter' = w.adapter
  /\ file' = w.file
  /\ counter' = w.counter
  /\ ret' = [op |-> op, out |-> out]
  /\ piped' = p
  /\ UNCHANGED <<clock, preTx, hooks, regs, exec, hookRet, twin, sites, sorting>>

LcInitialize ==
  LET r == UMgmt_initialize(facade[1], W)
  IN  LifecycleCall("initialize", r.um, r.w, r.ret, <<>>)

LcShutdown ==
  LET r == UMgmt_shutdown(facade[1], W)
  IN  LifecycleCall("shutdown", r.um, r.w, r.ret, <<>>)

LcUpdateConfig ==
  \E n \in ConfiguredNames :
    LifecycleCall("updateConfig", UMgmt_updateConfig(facade[1], [adapter |-> n]), W,
                  Ok("void"), <<>>)

LcRegisterAdapter ==
  \E class \in {"MemoryAdapter", "FileSystemAdapter"} :
    LET r == PM_registerAdapter(facade[1].pluginManager, "customAdapter", class)
    IN  LifecycleCall("registerAdapter", [facade[1] EXCEPT !.pluginManager = r.pm], W,
                      r.ret, <<>>)

LcRegisterPlugin ==
  \E plugin \in Plugins :
    LET r == PM_registerPlugin(facade[1].pluginManager, plugin)
    IN  LifecycleCall("registerPlugin", [facade[1] EXCEPT !.pluginManager = r.pm], W,
                      r.ret, <<>>)

LcRegisterHook ==
  \E event \in {"user.preCreate", "userRole.preAssign"} :
    /\ calls < MaxFacadeCalls
    /\ calls' = calls + 1
    /\ hooks' = H_registerHook(hooks, event, "none", <<>>, regs + 1)
    /\ regs' = regs + 1
    /\ ret' = [op |-> "registerHook", out |-> Ok("void")]
    /\ piped' = <<>>
    /\ UNCHANGED <<adapter, file, counter, clock, preTx, exec, hookRet, facade, twin, sites, sorting>>

LcCreateUser ==
  LET r == UMgmt_users_createUser(facade[1], W, hooks, [username |-> "alice", email |-> "a@x.io"])
  IN  LifecycleCall("users.createUser", facade[1], r.w, r.ret, r.piped)

LcCreateRole ==
  LET r == UMgmt_roles_createRole(facade[1], W, hooks, [name |-> "admin"])
  IN  LifecycleCall("roles.createRole", facade[1], r.w, r.ret, r.piped)

LcAssignRole ==
  \E u \in {generate(1)}, r \in {generate(1), generate(2)} :
    LET a == UMgmt_guarded_assignRole(facade[1], W, hooks, u, r)
    IN  LifecycleCall("assignRole", facade[1], a.w, a.ret, a.piped)

LcTransaction ==
  \E op \in {"beginTransaction", "commit", "rollback"} :
    LET r == UMgmt_transaction(facade[1], W, op)
    IN  LifecycleCall(op, facade[1], r.w, r.ret, r.piped)

LifecycleNext ==
  \/ LcInitialize
  \/ LcShutdown
  \/ LcUpdateConfig
  \/ LcRegisterAdapter
  \/ LcRegisterPlugin
  \/ LcRegisterHook
  \/ LcCreateUser
  \/ LcCreateRole
  \/ LcAssignRole
  \/ LcTransaction

LifecycleSpec == LifecycleInit /\ [][LifecycleNext]_vars

\* ------------------------------------------ state machine of the two adapters

\* A MemoryAdapter and a FileSystemAdapter, each fresh and initialized, each
\* with an IdGenerator of its own, are given the same calls of the contract
\* with the same arguments at the same instants.

\* the world of the second adapter
TwinW ==
  [adapter |-> twin[1].adapter, file |-> twin[1].file, counter |-> twin[1].counter,
   clock |-> clock, writes |-> 0]

PairInit ==
  /\ adapter = NewMemoryAdapter
  /\ file = <<>>
  /\ counter = 0
  /\ clock = 0
  /\ calls = 0
  /\ ret = [op |-> "initialize", out |-> Ok("void")]
  /\ preTx = <<>>
  /\ hooks = <<>>
  /\ regs = 0
  /\ exec = <<>>
  /\ hookRet = <<>>
  /\ piped = <<>>
  /\ facade = <<>>
  /\ LET r == initialize([adapter |-> NewFileSystemAdapter, file |-> <<>>,
                          counter |-> 0, clock |-> 0, writes |-> 0])
     IN  twin = <<[adapter |-> r.w.adapter, file |-> r.w.file, counter |-> r.w.counter,
                   out |-> r.ret]>>
  /\ sites = <<>>
  /\ sorting = <<>>

\* the call op returned a.ret from the first adapter and b.ret from the second
PairCall(op, a, b) ==
  /\ calls < MaxPairCalls
  /\ calls' = calls + 1
  /\ adapter' = a.w.adapter
  /\ file' = a.w.file
  /\ counter' = a.w.counter
  /\ ret' = [op |-> op, out |-> a.ret]
  /\ twin' = <<[adapter |-> b.w.adapter, file |-> b.w.file, counter |-> b.w.counter,
                out |-> b.ret]>>
  /\ UNCHANGED <<clock, preTx, hookVars, facade, sites, sorting>>

PairTick ==
  /\ calls < MaxPairCalls
  /\ calls' = calls + 1
  /\ clock' = clock + 1
  /\ UNCHANGED <<adapter, file, counter, ret, preTx, hookVars, facade, twin, sites, sorting>>

\* the ids the calls are made with: those either adapter has handed out
PairIds == IdInputs(W) \cup IdInputs(TwinW)

PairBeginTransaction ==
  PairCall("beginTransaction", beginTransaction(W), beginTransaction(TwinW))
PairCommit == PairCall("commit", commit(W), commit(TwinW))
PairRollback == PairCall("rollback", rollback(W), rollback(TwinW))
PairCreateUser ==
  \E d \in UserInputs : PairCall("createUser", createUser(W, d), createUser(TwinW, d))
PairGetUserById ==
  \E id \in PairIds : PairCall("getUserById", getUserById(W, id), getUserById(TwinW, id))
PairGetUsers ==
  \E o \in ListOptions : PairCall("getUsers", getUsers(W, o), getUsers(TwinW, o))
PairUpdateUser ==
  \E id \in PairIds, d \in UserPartials(W) :
    PairCall("updateUser", updateUser(W, id, d), updateUser(TwinW, id, d))
PairDeleteUser ==
  \E id \in PairIds : PairCall("deleteUser", deleteUser(W, id), deleteUser(TwinW, id))
PairCreateRole ==
  \E d \in RoleInputs : PairCall("createRole", createRole(W, d), createRole(TwinW, d))
PairGetRoleById ==
  \E id \in PairIds : PairCall("getRoleById", getRoleById(W, id), getRoleById(TwinW, id))
PairGetRoles ==
  \E o \in ListOptions : PairCall("getRoles", getRoles(W, o), getRoles(TwinW, o))
PairUpdateRole ==
  \E id \in PairIds, d \in RolePartials(W) :
    PairCall("updateRole", updateRole(W, id, d), updateRole(TwinW, id, d))
PairDeleteRole ==
  \E id \in PairIds : PairCall("deleteRole", deleteRole(W, id), deleteRole(TwinW, id))
PairAssignRole ==
  \E u \in PairIds, r \in PairIds :
    PairCall("assignRole", assignRole(W, u, r), assignRole(TwinW, u, r))
PairRemoveRole ==
  \E u \in PairIds, r \in PairIds :
    PairCall("removeRole", removeRole(W, u, r), removeRole(TwinW, u, r))
PairGetUserRoles ==
  \E u \in PairIds : PairCall("getUserRoles", getUserRoles(W, u), getUserRoles(TwinW, u))
PairGetRoleUsers ==
  \E r \in PairIds : PairCall("getRoleUsers", getRoleUsers(W, r), getRoleUsers(TwinW, r))

PairNext ==
  \/ PairTick
  \/ PairBeginTransaction
  \/ PairCommit
  \/ PairRollback
  \/ PairCreateUser
  \/ PairGetUserById
  \/ PairGetUsers
  \/ PairUpdateUser
  \/ PairDeleteUser
  \/ PairCreateRole
  \/ PairGetRoleById
  \/ PairGetRoles
  \/ PairUpdateRole
  \/ PairDeleteRole
  \/ PairAssignRole
  \/ PairRemoveRole
  \/ PairGetUserRoles
  \/ PairGetRoleUsers

PairSpec == PairInit /\ [][PairNext]_vars

\* ------------------------------------------- state machine of two call sites
\* Two call sites call beginTransaction() on one adapter and neither awaits
\* the other's promise before it calls.  A call runs on the one thread of the
\* event loop: it runs from one await of its body to the next without another
\* call running in between, and at an await any other call may run.

\* a body that awaits between the test of inTransaction and the assignments
BeginTransactionSegments_awaitsAfterTest == <<"test", "assignments">>

\* the stretches of the body of beginTransaction between its awaits: both
\* bodies are an if, two assignments and no await
BeginTransactionSegments == <<"body">>

\* one stretch of the body, run in the world w
RunSegment(seg, w) ==
  CASE seg = "body" -> beginTransaction(w)
    [] seg = "test" ->
         IF w.adapter.inTransaction
           THEN Result(w, Err("Transaction already in progress"))
           ELSE Result(w, Ok("void"))
    [] seg = "assignments" ->
         beginTransaction([w EXCEPT !.adapter.inTransaction = FALSE])

CallSites == {1, 2}

RaceInit ==
  /\ adapter \in {NewMemoryAdapter, NewFileSystemAdapter}
  /\ file = <<>>
  /\ counter = 0
  /\ clock = 0
  /\ calls = 0
  /\ ret = [op |-> "new", out |-> Ok("void")]
  /\ preTx = <<>>
  /\ hooks = <<>>
  /\ regs = 0
  /\ exec = <<>>
  /\ hookRet = <<>>
  /\ piped = <<>>
  /\ facade = <<>>
  /\ twin = <<>>
  /\ sites = <<[start |-> <<>>,
                site |-> [s \in CallSites |-> [pc |-> 0, out |-> <<>>, settled |-> FALSE]]]>>
  /\ sorting = <<>>

\* a call made and awaited before either call site calls
RaceBefore == calls < MaxRaceCalls /\ sites[1].start = <<>>

\* call site s calls beginTransaction, or goes on after an await of its body:
\* the next stretch of the body runs
SiteRun(s) ==
  LET me == sites[1].site[s]
      r == RunSegment(BeginTransactionSegments[me.pc + 1], W)
      done == ~r.ret.ok \/ me.pc + 1 = Len(BeginTransactionSegments)
  IN  /\ me.out = <<>>
      /\ me.pc > 0 \/ \A t \in CallSites : ~sites[1].site[t].settled
      /\ adapter' = r.w.adapter
      /\ file' = r.w.file
      /\ counter' = r.w.counter
      /\ sites' = <<[start |-> IF sites[1].start = <<>> THEN <<adapter>> ELSE sites[1].start,
                     site |-> [sites[1].site EXCEPT ![s] =
                                 [pc |-> me.pc + 1,
                                  out |-> IF done THEN <<r.ret>> ELSE <<>>,
                                  settled |-> FALSE]]]>>
      /\ UNCHANGED <<clock, calls, ret, preTx, hookVars, facade, twin, sorting>>

\* the promise call site s holds settles
SiteSettle(s) ==
  /\ sites[1].site[s].out # <<>>
  /\ ~sites[1].site[s].settled
  /\ sites' = <<[sites[1] EXCEPT !.site[s].settled = TRUE]>>
  /\ UNCHANGED <<adapterVars, calls, hookVars, facade, twin, sorting>>

RaceRun == \E s \in CallSites : SiteRun(s)
RaceSettle == \E s \in CallSites : SiteSettle(s)

RaceNext ==
  \/ RaceBefore /\ Tick
  \/ RaceBefore /\ Initialize
  \/ RaceBefore /\ BeginTransaction
  \/ RaceBefore /\ Commit
  \/ RaceBefore /\ Rollback
  \/ RaceBefore /\ CreateUser
  \/ RaceBefore /\ CreateRole
  \/ RaceRun
  \/ RaceSettle

RaceSpec == RaceInit /\ [][RaceNext]_vars

\* ------------------------------------------- state machine of the list sort
\* The sort callback of getUsers/getRoles, on three records at a time.  The
\* records are roles by their name and their optional description; the
\* callback is the same code in the four list operations.

SortRecords ==
  {[name |-> n] : n \in {"admin", "bob", "ops"}}
    \cup {[name |-> n, description |-> d] : n \in {"admin", "bob", "ops"}, d \in {"d", "ops"}}

\* the entries of options.sort: up to MaxSortKeys different keys, each with
\* its order
RECURSIVE SortsOfLength(_)
SortsOfLength(n) ==
  IF n = 0
    THEN {<<>>}
    ELSE {Append(s, <<k, o>>) :
            s \in SortsOfLength(n - 1), k \in {"name", "description", "tags"},
            o \in {"asc", "desc"}}
SortOptions ==
  {s \in UNION {SortsOfLength(n) : n \in 1..MaxSortKeys} :
     \A i \in 1..Len(s), j \in 1..Len(s) : i # j => s[i][1] # s[j][1]}

SortInit ==
  /\ adapter \in {NewMemoryAdapter, NewFileSystemAdapter}
  /\ file = <<>>
  /\ counter = 0
  /\ clock = 0
  /\ calls = 0
  /\ ret = [op |-> "new", out |-> Ok("void")]
  /\ preTx = <<>>
  /\ hooks = <<>>
  /\ regs = 0
  /\ exec = <<>>
  /\ hookRet = <<>>
  /\ piped = <<>>
  /\ facade = <<>>
  /\ twin = <<>>
  /\ sites = <<>>
  /\ sorting \in {<<[items |-> <<a, b, c>>, sort |-> s, cmp |-> <<>>, sorted |-> <<>>]>> :
                    a \in SortRecords, b \in SortRecords, c \in SortRecords,
                    s \in SortOptions}

\* the callback is called on every pair of the three records
SortCompare ==
  /\ sorting[1].cmp = <<>>
  /\ sorting' = <<[sorting[1] EXCEPT !.cmp =
                     <<[i \in 1..3 |-> [j \in 1..3 |->
                          Compare(sorting[1].items[i], sorting[1].items[j],
                                  sorting[1].sort)]]>>]>>
  /\ UNCHANGED <<adapterVars, calls, hookVars, facade, twin, sites>>

\* items.sort(callback)
SortItems ==
  /\ sorting[1].sorted = <<>>
  /\ sorting' = <<[sorting[1] EXCEPT !.sorted =
                     <<StableSort(sorting[1].items, sorting[1].sort)>>]>>
  /\ UNCHANGED <<adapterVars, calls, hookVars, facade, twin, sites>>

SortNext ==
  \/ SortCompare
  \/ SortItems

SortSpec == SortInit /\ [][SortNext]_vars

\* ------------------------------------------------------------------ claims

\* everything the read operations return, for every input
Reads(w) ==
  [userById |-> [id \in IdInputs(w) |-> getUserById(w, id).ret],
   roleById |-> [id \in IdInputs(w) |-> getRoleById(w, id).ret],
   users |-> [o \in ListOptions |-> getUsers(w, o).ret],
   roles |-> [o \in ListOptions |-> getRoles(w, o).ret],
   userRoles |-> [id \in IdInputs(w) |-> getUserRoles(w, id).ret],
   roleUsers |-> [id \in IdInputs(w) |-> getRoleUsers(w, id).ret]]

\* C1: after a successful rollback the users, roles and associations, every
\* field of every record, are what they were just before beginTransaction.
C1_RollbackRestoresExactState ==
  (ret.op = "rollback" /\ ret.out.ok) => Visible(W) = preTx[1]

\* C2: commit succeeds in an open transaction and every read returns after
\* it exactly what it returned inside the transaction just before it.
C2_CommitPersistsReads ==
  adapter.inTransaction =>
    LET r == commit(W)
    IN  /\ r.ret.ok
        /\ ~r.w.adapter.inTransaction
        /\ Reads(r.w) = Reads(W)

\* a commit has just succeeded on a transaction that assigned a role
C2_Witness ==
  /\ ret.op = "commit" /\ ret.out.ok
  /\ preTx # <<>> /\ preTx[1].userRoles = <<>>
  /\ \E u \in IdsOf(W) : getUserRoles(W, u).ret.value # <<>>

\* C3: beginTransaction in an open transaction, and commit or rollback with
\* none open, throw and change nothing: not the collections, not the flag,
\* not the snapshot, which exists exactly while the transaction is open.
C3_TransactionStateErrors ==
  /\ adapter.inTransaction = (adapter.transactionData # <<>>)
  /\ adapter.inTransaction =>
       beginTransaction(W) = Result(W, Err("Transaction already in progress"))
  /\ ~adapter.inTransaction =>
       /\ commit(W) = Result(W, Err("No transaction in progress"))
       /\ rollback(W) = Result(W, Err("No transaction in progress"))

\* a beginTransaction has just been refused in an open transaction
C3_Witness ==
  /\ ret.op = "beginTransaction" /\ ~ret.out.ok
  /\ adapter.inTransaction

\* u (r) is a user (role) the reads find
UserExists(w, u) == u # "" /\ getUserById(w, u).ret.value # <<>>
RoleExists(w, r) == r # "" /\ getRoleById(w, r).ret.value # <<>>

\* the number of elements of s that satisfy P
Count(s, P(_)) == Cardinality({i \in 1..Len(s) : P(s[i])})

\* C4: assignRole(u, r) succeeds only if u and r both exist in the visible
\* state (the transaction's while one is open); otherwise it throws the
\* referential error and creates no association.
C4_AssignRoleNeedsBothEndpoints ==
  \A u \in IdsOf(W), r \in IdsOf(W) :
    LET res == assignRole(W, u, r)
    IN  ~(UserExists(W, u) /\ RoleExists(W, r)) =>
          res = Result(W, Err("User or role not found"))

\* C5: after deleteUser(u) (deleteRole(r)) no association names u (r), and
\* in every state each stored association names a user and a role that both
\* exist in the same visible state.
C5_AssociationsReferenceExisting ==
  /\ \A id \in IdsOf(W) :
       /\ Count(UserRolesOf(deleteUser(W, id).w), LAMBDA ur : ur.userId = id) = 0
       /\ Count(UserRolesOf(deleteRole(W, id).w), LAMBDA ur : ur.roleId = id) = 0
  /\ \A i \in 1..Len(UserRolesOf(W)) :
       /\ UserExists(W, UserRolesOf(W)[i].userId)
       /\ RoleExists(W, UserRolesOf(W)[i].roleId)

\* C6: for existing u and r, assignRole(u, r) called twice (time passing in
\* between) returns the same association both times, the second call changes
\* nothing, one association is stored for the pair and getUserRoles(u)
\* holds r exactly once.
C6_AssignRoleIdempotent ==
  \A u \in IdsOf(W), r \in IdsOf(W) :
    (UserExists(W, u) /\ RoleExists(W, r)) =>
      LET r1 == assignRole(W, u, r)
          w1 == [r1.w EXCEPT !.clock = @ + 1]
          r2 == assignRole(w1, u, r)
      IN  /\ r1.ret.ok
          /\ r2.ret = r1.ret
          /\ r2.w = w1
          /\ Count(UserRolesOf(r2.w), LAMBDA ur : ur.userId = u /\ ur.roleId = r) = 1
          /\ Count(getUserRoles(r2.w, u).ret.value, LAMBDA role : role.id = r) = 1

\* C7: the id of a stored entity is the id create gave it: get-by-id with
\* that id returns, as long as it returns a record, a record whose id field
\* is that id, and an update, whatever its partial fields, returns and
\* leaves stored under that id a record with that id.
C7_IdImmutable ==
  \A id \in IdsOf(W) :
    /\ UserExists(W, id) =>
         /\ getUserById(W, id).ret.value[1].id = id
         /\ \A d \in UserPartials(W) :
              LET r == updateUser(W, id, d)
              IN  r.ret.ok => (r.ret.value[1].id = id /\ UserExists(r.w, id))
    /\ RoleExists(W, id) =>
         /\ getRoleById(W, id).ret.value[1].id = id
         /\ \A d \in RolePartials(W) :
              LET r == updateRole(W, id, d)
              IN  r.ret.ok => (r.ret.value[1].id = id /\ RoleExists(r.w, id))

\* C8: no two stored users share an id and no two stored roles share an id.
C8_IdsUnique ==
  /\ \A i, j \in 1..Len(Visible(W).users) :
       i # j => Visible(W).users[i].id # Visible(W).users[j].id
  /\ \A i, j \in 1..Len(Visible(W).roles) :
       i # j => Visible(W).roles[i].id # Visible(W).roles[j].id

\* the options the list claims are stated for
PageInputs == 0..2
ClaimListOptions ==
  ListOptions
    \cup {[limit |-> l, offset |-> o] : l \in PageInputs, o \in PageInputs}
    \cup {[filter |-> f, limit |-> l, offset |-> o] :
            f \in {[username |-> "bob"], [name |-> "ops"]},
            l \in PageInputs, o \in PageInputs}

\* the filter of the options, none being the empty filter
FilterOf(o) == IF "filter" \in DOMAIN o THEN o.filter ELSE <<>>

\* the record has every field the filter names, with the value it names
ExactMatch(item, filter) ==
  \A key \in DOMAIN filter : key \in DOMAIN item /\ item[key] = filter[key]

\* the records of s that match the filter of the options exactly
Matching(s, o) == SelectSeq(s, LAMBDA x : ExactMatch(x, FilterOf(o)))

\* C9: the total getUsers / getRoles return is the number of records that
\* match the filter, whatever limit and offset are.
C9_TotalCountsFilterMatches ==
  \A o \in ClaimListOptions :
    /\ getUsers(W, o).ret.value.total =
         Count(Visible(W).users, LAMBDA x : ExactMatch(x, FilterOf(o)))
    /\ getRoles(W, o).ret.value.total =
         Count(Visible(W).roles, LAMBDA x : ExactMatch(x, FilterOf(o)))

Min(a, b) == IF a < b THEN a ELSE b
Max(a, b) == IF a > b THEN a ELSE b

\* C10: with N records matching the filter, {limit: L, offset: O} returns
\* max(0, min(L, N - O)) items, for every L >= 0 and O >= 0.
C10_PageLength ==
  \A o \in ClaimListOptions :
    ("limit" \in DOMAIN o /\ "offset" \in DOMAIN o) =>
      /\ Len(getUsers(W, o).ret.value.items) =
           Max(0, Min(o.limit,
                      Count(Visible(W).users, LAMBDA x : ExactMatch(x, FilterOf(o)))
                        - o.offset))
      /\ Len(getRoles(W, o).ret.value.items) =
           Max(0, Min(o.limit,
                      Count(Visible(W).roles, LAMBDA x : ExactMatch(x, FilterOf(o)))
                        - o.offset))

\* the filters of the options a caller gives without a limit
ClaimFilters ==
  {<<>>, [username |-> "bob"], [name |-> "ops"]}

\* the options that give an offset and no limit
OffsetOnlyOptions ==
  {[offset |-> off] : off \in PageInputs}
    \cup {[filter |-> f, offset |-> off] : f \in ClaimFilters \ {<<>>}, off \in PageInputs}

\* C11: with an offset O and no limit, getUsers / getRoles return the
\* filtered records from position O to the end: N - O of them for O <= N.
C11_OffsetWithoutLimit ==
  \A o \in OffsetOnlyOptions :
    /\ getUsers(W, o).ret.value.items =
         Slice(Matching(Visible(W).users, o), o.offset, Len(Visible(W).users))
    /\ getRoles(W, o).ret.value.items =
         Slice(Matching(Visible(W).roles, o), o.offset, Len(Visible(W).roles))

\* the filters of C12: one field, two fields, a field of the other kind, a
\* field no record has (with a string and with undefined as its value)
ClaimFilterInputs ==
  {[username |-> "bob"],
   [username |-> "alice", email |-> "a@x.io"],
   [username |-> "bob", email |-> "bad"],
   [name |-> "ops"],
   [nickname |-> "bob"],
   [nickname |-> Undefined]}

\* C12: getUsers / getRoles with a filter return exactly the records that
\* have, for every entry of the filter, that field with that value; a filter
\* naming a field no record has returns nothing, whatever its value.
C12_FilterExactMatch ==
  \A f \in ClaimFilterInputs :
    /\ getUsers(W, [filter |-> f]).ret.value.items =
         SelectSeq(Visible(W).users, LAMBDA x : ExactMatch(x, f))
    /\ getRoles(W, [filter |-> f]).ret.value.items =
         SelectSeq(Visible(W).roles, LAMBDA x : ExactMatch(x, f))

\* the order of two values of a sort key: strings as strings, timestamps by
\* their instant
KeyLess(key, x, y) ==
  IF key \in {"createdAt", "updatedAt"} THEN x.ms < y.ms ELSE StringRank(x) < StringRank(y)

\* the lexicographic order of two records under a sort specification: -1, 0
\* or 1 by the first key both records have with different values
RECURSIVE LexCompare(_, _, _)
LexCompare(a, b, sort) ==
  IF sort = <<>>
    THEN 0
    ELSE LET key == sort[1][1]
             both == key \in DOMAIN a /\ key \in DOMAIN b
             sign == IF sort[1][2] = "asc" THEN 1 ELSE -1
         IN  IF both /\ KeyLess(key, a[key], b[key]) THEN -sign
             ELSE IF both /\ KeyLess(key, b[key], a[key]) THEN sign
             ELSE LexCompare(a, b, Tail(sort))

\* the sort specifications of C13: one key, two keys with ties on the first,
\* a key no record has followed by one they have
ClaimSorts ==
  {<< <<"username", "asc">> >>,
   << <<"username", "desc">>, <<"createdAt", "asc">> >>,
   << <<"createdAt", "desc">> >>,
   << <<"name", "desc">>, <<"updatedAt", "desc">> >>,
   << <<"description", "asc">>, <<"createdAt", "desc">> >>}

\* sorted is all, reordered so that a record comes before every record that
\* is greater and before every equal record that came after it in all
IsStableSortOf(sorted, all, sort) ==
  /\ Len(sorted) = Len(all)
  /\ \E p \in [1..Len(all) -> 1..Len(all)] :
       /\ \A i \in 1..Len(all) : sorted[i] = all[p[i]]
       /\ \A i, j \in 1..Len(all) :
            i < j =>
              \/ LexCompare(all[p[i]], all[p[j]], sort) < 0
              \/ LexCompare(all[p[i]], all[p[j]], sort) = 0 /\ p[i] < p[j]

\* C13: the result of getUsers / getRoles with a sort specification is the
\* stable lexicographic sort of the records: by the first key in its
\* direction, ties and keys absent on either record decided by the next key,
\* records equal on all keys in their pre-sort order.
C13_SortLexicographicStable ==
  \A sort \in ClaimSorts :
    /\ IsStableSortOf(getUsers(W, [sort |-> sort]).ret.value.items, Visible(W).users, sort)
    /\ IsStableSortOf(getRoles(W, [sort |-> sort]).ret.value.items, Visible(W).roles, sort)

\* the sort specifications of C14, no sort among them
ClaimSortInputs == {<<>>, << <<"createdAt", "desc">> >>, << <<"username", "desc">>, <<"name", "desc">> >>}

\* the options with filter f and sort specification sort, each left out when empty
QueryOf(f, sort) ==
  Merge(IF f = <<>> THEN <<>> ELSE [filter |-> f],
        IF sort = <<>> THEN <<>> ELSE [sort |-> sort])

\* C14: filter, then sort, then pagination: under {limit: L, offset: O} the
\* items are positions O .. O+L-1 of the sequence the same filter and sort
\* give without a page, that sequence is the stable sort of the matching
\* records, and with no filter and no sort it is the records in creation
\* order: a create appends its record to it.
C14_FilterSortThenPage ==
  /\ \A f \in ClaimFilters, sort \in ClaimSortInputs :
       LET q == QueryOf(f, sort)
           allUsers == getUsers(W, q).ret.value.items
           allRoles == getRoles(W, q).ret.value.items
       IN  /\ IsStableSortOf(allUsers, Matching(Visible(W).users, q), sort)
           /\ IsStableSortOf(allRoles, Matching(Visible(W).roles, q), sort)
           /\ \A l \in PageInputs, off \in PageInputs :
                LET page == Merge(q, [limit |-> l, offset |-> off])
                IN  /\ getUsers(W, page).ret.value.items = Slice(allUsers, off, off + l)
                    /\ getRoles(W, page).ret.value.items = Slice(allRoles, off, off + l)
  /\ \A d \in UserInputs :
       LET r == createUser(W, d)
       IN  r.ret.ok => Visible(r.w).users = Append(Visible(W).users, r.ret.value)
  /\ \A d \in RoleInputs :
       LET r == createRole(W, d)
       IN  r.ret.ok => Visible(r.w).roles = Append(Visible(W).roles, r.ret.value)

\* valid inputs of create: the required fields, and with tags and a description
ClaimUserInputs ==
  {[username |-> "alice", email |-> "a@x.io"],
   [username |-> "bob", email |-> "a@x.io", tags |-> [team |-> "core"]]}
ClaimRoleInputs ==
  {[name |-> "admin"],
   [name |-> "ops", description |-> "d", tags |-> [team |-> "core"]]}

\* the worlds one call after w, the call reading or mutating other entities
\* than the one with identifier id, or time passing
AfterOther(w, id) ==
  {w, [w EXCEPT !.clock = @ + 1]}
    \cup {createUser(w, d).w : d \in UserInputs}
    \cup {createRole(w, d).w : d \in RoleInputs}
    \cup {updateUser(w, i, [username |-> "bob"]).w : i \in IdsOf(w) \ {id}}
    \cup {updateRole(w, i, [name |-> "ops"]).w : i \in IdsOf(w) \ {id}}
    \cup {deleteUser(w, i).w : i \in IdsOf(w) \ {id}}
    \cup {deleteRole(w, i).w : i \in IdsOf(w) \ {id}}
    \cup {getUsers(w, o).w : o \in ListOptions}

C16_DeleteThenGet ==
  \A id \in IdsOf(W) :
    /\ UserExists(W, id) =>
         LET d1 == deleteUser(W, id)
             d2 == deleteUser(d1.w, id)
         IN  /\ d1.ret = Ok(TRUE)
             /\ getUserById(d1.w, id).ret = Ok(<<>>)
             /\ d2.ret = Ok(FALSE)
             /\ d2.w = d1.w
    /\ RoleExists(W, id) =>
         LET d1 == deleteRole(W, id)
             d2 == deleteRole(d1.w, id)
         IN  /\ d1.ret = Ok(TRUE)
             /\ getRoleById(d1.w, id).ret = Ok(<<>>)
             /\ d2.ret = Ok(FALSE)
             /\ d2.w = d1.w

\* the partial records of C17: valid and invalid fields, one and two of them
ClaimUserPartials(w) ==
  UserPartials(w) \cup {[email |-> "bad"], [username |-> "bob", email |-> "a@x.io"]}
ClaimRolePartials(w) ==
  RolePartials(w) \cup {[name |-> "ops", description |-> "d"]}

\* after is before with the record old replaced, where it stood, by new
ReplacedIn(before, after, old, new) ==
  \E i \in 1..Len(before) : before[i] = old /\ after = [before EXCEPT ![i] = new]

\* what update does to an existing entity, for every partial record: a merged
\* record that fails validation makes it throw and change nothing; one that
\* passes is returned and stored in place of the old one, with updatedAt set
\* to the instant of the call when refreshed is TRUE and like every other
\* field when it is FALSE
UpdateOutcome(refreshed) ==
  LET before == Visible(W)
      Stored(merged) == IF refreshed THEN Merge(merged, [updatedAt |-> NewDate(clock)])
                                     ELSE merged
  IN  \A id \in IdsOf(W) :
        /\ UserExists(W, id) =>
             LET old == getUserById(W, id).ret.value[1]
             IN  \A d \in ClaimUserPartials(W) :
                   LET r == updateUser(W, id, d)
                       after == Visible(r.w)
                   IN  IF validateUser(Merge(old, d)) # <<>>
                         THEN r = Result(W, Err("Validation failed"))
                         ELSE /\ r.ret = Ok(<<Stored(Merge(old, d))>>)
                              /\ ReplacedIn(before.users, after.users, old, r.ret.value[1])
                              /\ after.roles = before.roles
                              /\ after.userRoles = before.userRoles
        /\ RoleExists(W, id) =>
             LET old == getRoleById(W, id).ret.value[1]
             IN  \A d \in ClaimRolePartials(W) :
                   LET r == updateRole(W, id, d)
                       after == Visible(r.w)
                   IN  IF validateRole(Merge(old, d)) # <<>>
                         THEN r = Result(W, Err("Validation failed"))
                         ELSE /\ r.ret = Ok(<<Stored(Merge(old, d))>>)
                              /\ ReplacedIn(before.roles, after.roles, old, r.ret.value[1])
                              /\ after.users = before.users
                              /\ after.userRoles = before.userRoles

\* C17 (as amended): update merges the partial fields onto the current
\* record and validates the merged record before persisting; when validation
\* fails it throws and the stored record, its updatedAt included, is
\* unchanged; when it passes, the stored record is the old record overridden
\* by the partial fields, with updatedAt set to the instant of the update.
C17_UpdateMergesRevalidates == UpdateOutcome(TRUE)

\* C17 (as stated): when validation passes, the stored record equals the old
\* record overridden by the partial fields.
C17_StoredEqualsMerge == UpdateOutcome(FALSE)

\* an update has just been refused for an invalid merged record, some time
\* after the record was created, and the record is as it was created
C17_Witness ==
  /\ ret.op = "updateUser" /\ ~ret.out.ok
  /\ clock > 0
  /\ \E i \in 1..Len(Visible(W).users) :
       /\ Visible(W).users[i].updatedAt.ms < clock
       /\ Visible(W).users[i].username = "alice"

\* inputs of create that lack a required field or give a malformed one
InvalidUserInputs ==
  {[username |-> "", email |-> "a@x.io"],
   [username |-> "alice", email |-> "bad"],
   [username |-> "alice", email |-> ""],
   [username |-> "alice"],
   [email |-> "a@x.io"],
   <<>>}
InvalidRoleInputs == {[name |-> ""], [description |-> "d"], <<>>}

\* C18: createUser / createRole with an input that fails validation throws
\* the validation error before an identifier is taken: the collections, the
\* identifier counter and the file are as before the call.
C18_CreateValidatesFirst ==
  /\ \A d \in InvalidUserInputs : createUser(W, d) = Result(W, Err("Validation failed"))
  /\ \A d \in InvalidRoleInputs : createRole(W, d) = Result(W, Err("Validation failed"))

\* a createRole has just been refused by a FileSystemAdapter that holds
\* records and has written its file
C18_Witness ==
  /\ ret.op = "createRole" /\ ~ret.out.ok
  /\ ~IsMemory(W)
  /\ file # <<>>
  /\ Visible(W).users # <<>>

\* the user identifiers removeRole is called with: those handed out, and
\* two of them joined by a colon
ClaimIdInputs(w) == IdsOf(w) \cup {i \o ":" \o j : i \in IdsOf(w), j \in IdsOf(w)}

\* C19: removeRole(u, r) returns true exactly when an association for (u, r)
\* was visible before the call; after it none is, every other association
\* is as before, and so are the users and the roles.
C19_RemoveRoleReportsExistence ==
  LET before == Visible(W)
  IN  \A u \in ClaimIdInputs(W), r \in IdsOf(W) :
        LET isPair(ur) == ur.userId = u /\ ur.roleId = r
            res == removeRole(W, u, r)
            after == Visible(res.w)
        IN  /\ res.ret = Ok(\E i \in 1..Len(before.userRoles) : isPair(before.userRoles[i]))
            /\ after.userRoles = SelectSeq(before.userRoles, LAMBDA ur : ~isPair(ur))
            /\ after.users = before.users
            /\ after.roles = before.roles

\* a removeRole has just returned true, and the user and the role remain
C19_Witness ==
  /\ ret.op = "removeRole" /\ ret.out = Ok(TRUE)
  /\ UserRolesOf(W) = <<>>
  /\ Visible(W).users # <<>>
  /\ Visible(W).roles # <<>>

\* the hooks of seq, each before every hook of lower priority and before
\* every hook of its priority registered after it
InPriorityOrder(seq) ==
  \A i, j \in 1..Len(seq) :
    i < j =>
      \/ seq[i].priority > seq[j].priority
      \/ seq[i].priority = seq[j].priority /\ seq[i].reg < seq[j].reg

\* C20: after any registerHook and removeHook calls, an executeHooks during
\* which the hooks of its event are not changed invokes the hooks the event
\* has, each once, a higher priority before a lower one and, among equal
\* priorities, the earlier registered first.
C20_HooksRunInPriorityOrder ==
  /\ \A i \in 1..Len(hooks) : InPriorityOrder(hooks[i].value)
  /\ (exec # <<>> /\ ~exec[1].disturbed) =>
       /\ InPriorityOrder(exec[1].log)
       /\ exec[1].log = SubSeq(H_loopArray(hooks, exec[1]), 1, exec[1].index)
  /\ (hookRet # <<>> /\ ~hookRet[1].disturbed) =>
       /\ InPriorityOrder(hookRet[1].log)
       /\ hookRet[1].log = hookRet[1].registered

\* an executeHooks has returned after invoking three hooks: two of one
\* priority, and one of a higher priority that was registered last
C20_Witness ==
  /\ hookRet # <<>>
  /\ ~hookRet[1].disturbed
  /\ Len(hookRet[1].log) = 3
  /\ hookRet[1].log[1].reg = 3
  /\ hookRet[1].log[2].priority = hookRet[1].log[3].priority
  /\ hookRet[1].log[1].priority > hookRet[1].log[2].priority

\* --------------------------------------------------- hooks and the pipeline

\* the callbacks that throw
Throwing == {"fail", "spoil"}

\* the context made of the arguments input of the method op
InputContext(op, input) ==
  LET keys == InputKeys(op)
  IN  [key \in {keys[i] : i \in 1..Len(keys)} |->
         input[CHOOSE i \in 1..Len(keys) : keys[i] = key]]

\* what the adapter returned, as a post context holds it
InContext(op, value) ==
  IF op \in {"users.createUser", "roles.createRole"} THEN <<value>> ELSE value

\* the HookManager that had no hook, after registerHook was called with each
\* callback of pre for the pre event of op and then with each callback of post
\* for its post event
RECURSIVE RegisterAll(_, _, _, _)
RegisterAll(hs, event, callbacks, reg) ==
  IF callbacks = <<>>
    THEN hs
    ELSE RegisterAll(H_registerHook(hs, event, callbacks[1], <<>>, reg),
                     event, Tail(callbacks), reg + 1)

HooksOf(op, pre, post) ==
  RegisterAll(RegisterAll(<<>>, PreEvent(op), pre, 1), PostEvent(op), post, Len(pre) + 1)

\* the chains of callbacks the statements register around a method: <<those
\* of its pre event, those of its post event>>
ClaimChains ==
  {<<<<>>, <<>>>>,
   <<<<"replace">>, <<"replace">>>>,
   <<<<"spoil", "none">>, <<"tag">>>>,
   <<<<"fail", "replace">>, <<"spoil", "none">>>>,
   <<<<"tag", "replace", "replace">>, <<"none", "replace">>>>}

\* the fragment the callback returned when invoked with given: <<>> when it
\* returned undefined or threw
Fragment(callback, given) ==
  LET hookResult == CallbackResult(callback, given)
  IN  IF hookResult.ok THEN hookResult.value ELSE <<>>

\* the argument of the run e shallow-merged with the fragments its first n
\* hooks returned, in run order
RECURSIVE MergedUpTo(_, _)
MergedUpTo(e, n) ==
  IF n = 0
    THEN e.data
    ELSE LET before == MergedUpTo(e, n - 1)
             fragment == Fragment(e.log[n].callback, e.given[n])
         IN  IF fragment = <<>> THEN before ELSE Merge(before, fragment[1])

\* the context the run e went on with after its n-th hook: the one its next
\* hook was invoked with, or its running context
ContextAfter(e, n) == IF n < Len(e.given) THEN e.given[n + 1] ELSE e.result

\* C21: a hook that throws aborts neither the chain nor the method: in every
\* method of the managers and the facade, around chains with throwing hooks,
\* every hook of the pre event is invoked, executeHooks returns, the adapter
\* is called, and when every hook of the pre event threw or returned
\* undefined the adapter is called with the arguments of the method.  The
\* chains are registered where no hook is, and the hooks the behaviour
\* registered are those of its last call.
C21_ThrowingHookAbortsNothing ==
  /\ hooks = <<>> =>
     \A op \in ManagerOps, chains \in ClaimChains :
       \A input \in ManagerInputs(op, W) :
         LET hs == HooksOf(op, chains[1], chains[2])
             r == ManagerOp(op, W, hs, input)
         IN  /\ r.pre.log = H_getHooks(hs, <<PreEvent(op)>>)
             /\ Result(r.w, r.ret) = AdapterOp(op, W, r.args)
             /\ (\A i \in 1..Len(chains[1]) : chains[1][i] \in Throwing \cup {"none"})
                  => r.args = input
  /\ piped # <<>> =>
       /\ piped[1].pre.log = H_getHooks(hooks, <<PreEvent(piped[1].op)>>)
       /\ (\A i \in 1..Len(piped[1].pre.log) :
             piped[1].pre.log[i].callback \in Throwing \cup {"none"})
            => piped[1].args = piped[1].input

\* C22: when a hook throws, executeHooks goes on with the context it passed
\* to that hook: the next hook is invoked with it, or it is returned.
C22_ThrowLeavesContext ==
  /\ exec # <<>> =>
       \A n \in 1..Len(exec[1].log) :
         exec[1].log[n].callback \in Throwing =>
           ContextAfter(exec[1], n) = exec[1].given[n]
  /\ hookRet # <<>> =>
       \A n \in 1..Len(hookRet[1].log) :
         hookRet[1].log[n].callback \in Throwing =>
           ContextAfter(hookRet[1], n) = hookRet[1].given[n]

\* C23: each hook is invoked with the argument of executeHooks shallow-merged
\* with the fragments the hooks before it returned, in run order; a hook that
\* returns undefined leaves the running context as it is; executeHooks
\* returns the argument merged with all the fragments, and the argument
\* itself when the event has no hook.
C23_ContextThreaded ==
  /\ exec # <<>> =>
       /\ \A n \in 1..Len(exec[1].log) : exec[1].given[n] = MergedUpTo(exec[1], n - 1)
       /\ exec[1].result = MergedUpTo(exec[1], Len(exec[1].log))
  /\ hookRet # <<>> =>
       /\ \A n \in 1..Len(hookRet[1].log) :
            /\ hookRet[1].given[n] = MergedUpTo(hookRet[1], n - 1)
            /\ Fragment(hookRet[1].log[n].callback, hookRet[1].given[n]) = <<>>
                 => ContextAfter(hookRet[1], n) = hookRet[1].given[n]
       /\ hookRet[1].result = MergedUpTo(hookRet[1], Len(hookRet[1].log))
       /\ hookRet[1].log = <<>> => hookRet[1].result = hookRet[1].data

\* C24: a method of the managers or the facade returns the result as the
\* hooks of its post event left it: the value of the result key in the
\* context the executeHooks of the post event returned.
C24_PostHooksTransformResult ==
  (piped # <<>> /\ piped[1].post # <<>>) =>
    InContext(piped[1].op, ret.out.value)
      = piped[1].post[1].result[ResultKey(piped[1].op)]

\* C25: in every method of the managers and the facade, the hooks of the pre
\* event have all been invoked, on the context of the method's arguments,
\* when the adapter is called; the adapter is called with the values the
\* final pre context holds for the method's parameters; and the hooks of the
\* post event are run, all of them and on the adapter's result, exactly when
\* the adapter returned without throwing.  The chains are registered where
\* no hook is, and the hooks the behaviour registered are those of its last
\* call.
C25_PreThenAdapterThenPost ==
  /\ hooks = <<>> =>
     \A op \in ManagerOps, chains \in ClaimChains :
       \A input \in ManagerInputs(op, W) :
         LET hs == HooksOf(op, chains[1], chains[2])
             r == ManagerOp(op, W, hs, input)
             keys == InputKeys(op)
         IN  /\ r.pre = H_executeHooks(hs, PreEvent(op), InputContext(op, input))
             /\ r.pre.log = H_getHooks(hs, <<PreEvent(op)>>)
             /\ r.args = [i \in 1..Len(keys) |-> r.pre.result[keys[i]]]
             /\ Result(r.w, r.ret) = AdapterOp(op, W, r.args)
             /\ (r.post # <<>>) = r.ret.ok
             /\ r.post # <<>> =>
                  /\ r.post[1].log = H_getHooks(hs, <<PostEvent(op)>>)
                  /\ r.post[1].data[ResultKey(op)] = InContext(op, r.ret.value)
  /\ piped # <<>> =>
       LET p == piped[1]
           keys == InputKeys(p.op)
       IN  /\ p.pre.data = InputContext(p.op, p.input)
           /\ p.pre.log = H_getHooks(hooks, <<PreEvent(p.op)>>)
           /\ p.args = [i \in 1..Len(keys) |-> p.pre.result[keys[i]]]
           /\ (p.post # <<>>) = ret.out.ok
           /\ p.post # <<>> =>
                /\ p.post[1].log = H_getHooks(hooks, <<PostEvent(p.op)>>)
                /\ p.post[1].data[ResultKey(p.op)] = InContext(p.op, ret.out.value)

\* createUser has run between a replacing hook of user.preCreate and a hook
\* of user.postCreate, and the adapter created the user the hook put in
C25_Witness ==
  /\ piped # <<>>
  /\ piped[1].op = "users.createUser"
  /\ ret.out.ok
  /\ Len(piped[1].pre.log) = 1
  /\ piped[1].pre.log[1].callback = "replace"
  /\ Len(piped[1].post[1].log) = 1
  /\ piped[1].args # piped[1].input
  /\ ret.out.value.username = "eve"

\* ------------------------------------------- claims: the durable adapter

IsFileSystem(w) == w.adapter.class = "FileSystemAdapter"

\* the calls C26 names, and rollback
TransactionBodyOps ==
  {"createUser", "updateUser", "deleteUser", "createRole", "updateRole",
   "deleteRole", "assignRole", "removeRole", "shutdown", "rollback"}

\* C26: while a transaction of the FileSystemAdapter is open on an existing
\* snapshot file, no create, update, delete, assignRole, removeRole or
\* shutdown changes the content of the file, and neither does rollback: the
\* file holds the pre-transaction document until commit
C26_FileUntouchedInTransaction ==
  [][(/\ IsFileSystem(W)
      /\ adapter.inTransaction
      /\ file # <<>>
      /\ ret'.op \in TransactionBodyOps) => file' = file]_vars

\* C27: a commit of the FileSystemAdapter that succeeds calls fs.writeFile
\* exactly once, the file then holds the serialization of the transaction's
\* working state, the transaction is closed and the live state is that
\* working state
C27_CommitWritesOnce ==
  /\ (IsFileSystem(W) /\ adapter.inTransaction) =>
       LET r == commit(W)
       IN  /\ r.ret.ok
           /\ r.w.writes = 1
           /\ r.w.file = <<JSONstringify(adapter.data)>>
           /\ ~r.w.adapter.inTransaction
           /\ r.w.adapter.data = adapter.data
           /\ Visible(r.w) = Visible(W)
  /\ (IsFileSystem(W) /\ ret.op = "commit" /\ ret.out.ok) =>
       /\ ~adapter.inTransaction
       /\ file = <<JSONstringify(adapter.data)>>

\* a transaction that changed the collections has been committed
C27_Witness ==
  /\ IsFileSystem(W)
  /\ ret.op = "commit"
  /\ ret.out.ok
  /\ preTx # <<>>
  /\ preTx[1] # Visible(W)
  /\ file = <<JSONstringify(adapter.data)>>

\* the file holds the serialization of the live collections
WrittenThrough == IsFileSystem(W) => file = <<JSONstringify(adapter.data)>>

\* the calls that change the collections
MutationOps ==
  {"createUser", "updateUser", "deleteUser", "createRole", "updateRole",
   "deleteRole", "assignRole", "removeRole"}

\* C28: in every state an initialized FileSystemAdapter reaches, the file
\* equals the serialization of the in-memory users, roles and associations
\* when no transaction is open; and a mutation outside a transaction that
\* changed the collections has rewritten the file with them when it returns
C28_WriteThrough ==
  [][/\ ~adapter'.inTransaction => WrittenThrough'
     /\ (/\ ~adapter.inTransaction
         /\ ret'.op \in MutationOps
         /\ adapter' # adapter) => WrittenThrough']_vars

\* the timestamp value of the instant of t, t a Date or an ISO string
SameInstant(t) == [rep |-> "Date", ms |-> t.ms]

\* the entity e with its createdAt/updatedAt as timestamp values
WithTimestamps(e) ==
  [f \in DOMAIN e |-> IF f \in {"createdAt", "updatedAt"} THEN SameInstant(e[f]) ELSE e[f]]

\* a fresh FileSystemAdapter on the directory of w, initialized
Reloaded(w) == initialize([w EXCEPT !.adapter = NewFileSystemAdapter])

\* C29: shutdown of a FileSystemAdapter followed by initialize of a fresh
\* FileSystemAdapter on the same directory gives the fresh adapter the
\* users, roles and associations held at shutdown, in their order and with
\* their field values, each createdAt/updatedAt a timestamp value of the
\* instant of the original
C29_RoundTrip ==
  IsFileSystem(W) =>
    LET down == shutdown(W)
        up == Reloaded(down.w)
        held == adapter.data
        got == up.w.adapter.data
    IN  /\ down.ret.ok
        /\ up.ret.ok
        /\ got.users = [i \in 1..Len(held.users) |-> WithTimestamps(held.users[i])]
        /\ got.roles = [i \in 1..Len(held.roles) |-> WithTimestamps(held.roles[i])]
        /\ got.userRoles =
             [i \in 1..Len(held.userRoles) |-> WithTimestamps(held.userRoles[i])]
        /\ ~up.w.adapter.inTransaction
        /\ up.w.file = down.w.file

\* a FileSystemAdapter holding a user, a role and an association has been
\* shut down, and a fresh adapter loads exactly what it holds
C29_Witness ==
  /\ IsFileSystem(W)
  /\ ret.op = "shutdown"
  /\ adapter.data.users # <<>>
  /\ adapter.data.roles # <<>>
  /\ adapter.data.userRoles # <<>>
  /\ Reloaded(W).w.adapter.data = adapter.data

\* the document of three empty collections
EmptyData == [users |-> <<>>, roles |-> <<>>, userRoles |-> <<>>]

\* C30: initialize of a FileSystemAdapter that finds no snapshot file writes
\* the snapshot of three empty collections and leaves the in-memory
\* collections empty, whatever was done with the instance before
C30_BootstrapWritesEmpty ==
  [][(IsFileSystem(W) /\ file = <<>> /\ ret'.op = "initialize") =>
       /\ ret'.out.ok
       /\ file' = <<JSONstringify(EmptyData)>>
       /\ adapter'.data = EmptyData]_vars

\* ------------------------------------------- claims: the facade, the contract

\* the names the README configures the built-in adapters with, <<>> being a
\* configuration without adapter
DocumentedAdapters ==
  [n \in {<<>>, <<"memory">>, <<"fileSystem">>} |->
     IF n = <<"fileSystem">> THEN "FileSystemAdapter" ELSE "MemoryAdapter"]

\* config.adapter as <<>> or <<name>>
ConfiguredAdapter(um) ==
  IF "adapter" \in DOMAIN um.config THEN <<um.config.adapter>> ELSE <<>>

\* no registered plugin throws from its initialize
PluginsLoad(um) == PM_loadAllPlugins(um.pluginManager).ok

\* C31: initialize of a facade that is not initialized and whose plugins
\* load succeeds with the MemoryAdapter when the configuration names
\* 'memory' or no adapter, and with the FileSystemAdapter when it names
\* 'fileSystem'; it fails only for a name that was never registered, and
\* then with 'Adapter "<name>" not found'
C31_DocumentedNamesSelectBuiltIns ==
  [][(/\ ret'.op = "initialize"
      /\ calls' # calls
      /\ ~facade[1].initialized
      /\ PluginsLoad(facade[1])) =>
       LET name == ConfiguredAdapter(facade[1])
       IN  /\ name \in DOMAIN DocumentedAdapters =>
                /\ ret'.out.ok
                /\ facade'[1].initialized
                /\ adapter'.class = DocumentedAdapters[name]
           /\ ~ret'.out.ok =>
                /\ name # <<>>
                /\ name[1] \notin DOMAIN facade[1].pluginManager.adapters
                /\ ret'.out = Err("Adapter \"" \o name[1] \o "\" not found")
                /\ ~facade'[1].initialized]_vars

\* the methods of the facade that go to the adapter
GuardedOps ==
  {"users.createUser", "roles.createRole", "assignRole", "beginTransaction",
   "commit", "rollback"}

NotInitialized == Err("UserManagement not initialized. Call initialize() first.")

\* the call made in this step
Called(ops) == calls' # calls /\ ret'.op \in ops

\* C40: a method that goes to the adapter, called on a facade whose
\* initialize has not completed or right after a call of shutdown, throws
\* 'not initialized', runs no hook and leaves the adapter, the file and the
\* id counter alone; this.initialized changes in initialize and shutdown
\* only; initialize on an initialized facade and shutdown on an uninitialized
\* one return and change nothing; a failed initialize leaves the facade
\* uninitialized
C40_LifecycleGuard ==
  [][/\ (Called(GuardedOps) /\ (~facade[1].initialized \/ ret.op = "shutdown")) =>
          /\ ret'.out = NotInitialized
          /\ piped' = <<>>
          /\ UNCHANGED <<adapter, file, counter, facade>>
     /\ Called(GuardedOps \cup {"updateConfig", "registerAdapter", "registerPlugin",
                                "registerHook"}) =>
          facade'[1].initialized = facade[1].initialized
     /\ (Called({"initialize"}) /\ facade[1].initialized) =>
          ret'.out.ok /\ UNCHANGED <<adapter, file, counter, facade>>
     /\ (Called({"shutdown"}) /\ ~facade[1].initialized) =>
          ret'.out.ok /\ UNCHANGED <<adapter, file, counter, facade>>
     /\ Called({"initialize"}) => (facade'[1].initialized = ret'.out.ok)]_vars

\* a record without its timestamps
Untimed(e) == [f \in DOMAIN e \ {"createdAt", "updatedAt"} |-> e[f]]

\* a sequence of records, each without its timestamps
UntimedAll(es) == [i \in 1..Len(es) |-> Untimed(es[i])]

\* what a successful call of op returned, timestamps left out
Comparable(op, value) ==
  CASE op \in {"createUser", "createRole", "assignRole"} -> Untimed(value)
    [] op \in {"getUserById", "getRoleById", "updateUser", "updateRole",
               "getUserRoles", "getRoleUsers"} -> UntimedAll(value)
    [] op \in {"getUsers", "getRoles"} ->
         [items |-> UntimedAll(value.items), total |-> value.total]
    [] OTHER -> value

\* the two outcomes of a call agree
SameOutcome(op, a, b) ==
  /\ a.ok = b.ok
  /\ a.ok => Comparable(op, a.value) = Comparable(op, b.value)
  /\ ~a.ok => a.error = b.error

\* C32: given the same calls of the contract, the MemoryAdapter and the
\* FileSystemAdapter return the same outcome at every call: both succeed or
\* both throw the same error, with the same boolean or null, the same
\* records (timestamps left out; each adapter generates the same ids) and
\* the same order of the items of a list
C32_AdaptersInterchangeable ==
  twin # <<>> => SameOutcome(ret.op, ret.out, twin[1].out)

\* ----------------------------------------------- claims: concurrent callers
\* what the adapter is left as by one beginTransaction() called in the world
\* the first of the two calls was made in
OneSnapshot == beginTransaction([W EXCEPT !.adapter = sites[1].start[1]]).w.adapter

BothSettled == \A s \in CallSites : sites[1].site[s].settled

\* C33: of two beginTransaction() calls made on an adapter with no open
\* transaction, neither awaited before the other is made, exactly one
\* resolves and the other rejects with 'Transaction already in progress',
\* and the adapter holds the one snapshot the resolved call took
C33_OneOfTwoBegins ==
  (BothSettled /\ ~sites[1].start[1].inTransaction) =>
    /\ \E s \in CallSites :
         /\ sites[1].site[s].out = <<Ok("void")>>
         /\ \A t \in CallSites \ {s} :
              sites[1].site[t].out = <<Err("Transaction already in progress")>>
    /\ adapter.inTransaction
    /\ adapter = OneSnapshot

C33_Witness ==
  /\ BothSettled
  /\ ~sites[1].start[1].inTransaction
  /\ sites[1].site[2].out = <<Ok("void")>>
  /\ adapter.transactionData # <<>>
  /\ Visible(W).users # <<>>

\* ----------------------------------------------------- claims: timestamps
\* partial records that carry timestamps of their own, earlier and later
\* than the clock
TimestampPartials(w) ==
  {[updatedAt |-> NewDate(0)],
   [updatedAt |-> NewDate(w.clock + 1)],
   [createdAt |-> NewDate(w.clock + 1)]}

\* every stored user and role was created no later than it was last modified
CreatedBeforeUpdated(w) ==
  /\ \A i \in DOMAIN Visible(w).users :
       Visible(w).users[i].createdAt.ms <= Visible(w).users[i].updatedAt.ms
  /\ \A i \in DOMAIN Visible(w).roles :
       Visible(w).roles[i].createdAt.ms <= Visible(w).roles[i].updatedAt.ms

\* the update that returned the outcome r refreshed updatedAt of the record
\* old at the clock of w and left every stored record created before updated
Refreshed(w, old, r) ==
  (r.ret.ok /\ r.ret.value # <<>>) =>
    /\ r.ret.value[1].updatedAt.ms = w.clock
    /\ r.ret.value[1].updatedAt.ms >= old[1].updatedAt.ms
    /\ CreatedBeforeUpdated(r.w)

\* C34: a successful update stores the clock value as updatedAt, never less
\* than the updatedAt before it, also when the partial record carries an
\* updatedAt; createdAt <= updatedAt in every stored user and role
C34_TimestampsMonotonic ==
  /\ CreatedBeforeUpdated(W)
  /\ \A id \in IdsOf(W) :
       /\ \A d \in UserPartials(W) \cup TimestampPartials(W) :
            Refreshed(W, getUserById(W, id).ret.value, updateUser(W, id, d))
       /\ \A d \in RolePartials(W) \cup TimestampPartials(W) :
            Refreshed(W, getRoleById(W, id).ret.value, updateRole(W, id, d))

\* ---------------------------------------------------- claims: associations
\* getUserRoles(u) lists a role with id r / getRoleUsers(r) lists a user
\* with id u
ListsRole(w, u, r) ==
  LET roles == getUserRoles(w, u).ret.value
  IN  \E i \in DOMAIN roles : roles[i].id = r
ListsUser(w, r, u) ==
  LET users == getRoleUsers(w, r).ret.value
  IN  \E i \in DOMAIN users : users[i].id = u

\* C35: in every reachable state, for every user id u and role id r,
\* getUserRoles(u) contains the role r exactly when getRoleUsers(r)
\* contains the user u
C35_ListingsSymmetric ==
  \A u \in IdsOf(W), r \in IdsOf(W) : ListsRole(W, u, r) <=> ListsUser(W, r, u)

\* ------------------------------------------- claims: reads in a transaction
\* the reads made after the write that returned r show what it wrote
CreatedUserIsRead(r) ==
  r.ret.ok =>
    /\ getUserById(r.w, r.ret.value.id).ret.value = <<r.ret.value>>
    /\ \E i \in DOMAIN Visible(r.w).users : Visible(r.w).users[i] = r.ret.value
CreatedRoleIsRead(r) ==
  r.ret.ok =>
    /\ getRoleById(r.w, r.ret.value.id).ret.value = <<r.ret.value>>
    /\ \E i \in DOMAIN Visible(r.w).roles : Visible(r.w).roles[i] = r.ret.value
UpdatedUserIsRead(id, r) ==
  (r.ret.ok /\ r.ret.value # <<>>) =>
    /\ getUserById(r.w, id).ret.value = r.ret.value
    /\ \E i \in DOMAIN Visible(r.w).users : Visible(r.w).users[i] = r.ret.value[1]
UpdatedRoleIsRead(id, r) ==
  (r.ret.ok /\ r.ret.value # <<>>) =>
    /\ getRoleById(r.w, id).ret.value = r.ret.value
    /\ \E i \in DOMAIN Visible(r.w).roles : Visible(r.w).roles[i] = r.ret.value[1]
DeletedUserIsRead(id, r) ==
  (r.ret.ok /\ r.ret.value) =>
    /\ getUserById(r.w, id).ret.value = <<>>
    /\ \A i \in DOMAIN Visible(r.w).users : Visible(r.w).users[i].id # id
DeletedRoleIsRead(id, r) ==
  (r.ret.ok /\ r.ret.value) =>
    /\ getRoleById(r.w, id).ret.value = <<>>
    /\ \A i \in DOMAIN Visible(r.w).roles : Visible(r.w).roles[i].id # id
AssignedIsRead(u, ro, r) ==
  r.ret.ok => ListsRole(r.w, u, ro) /\ ListsUser(r.w, ro, u)
RemovedIsRead(u, ro, r) ==
  (r.ret.ok /\ r.ret.value) => ~ListsRole(r.w, u, ro) /\ ~ListsUser(r.w, ro, u)

\* C36: while a transaction is open, a read that follows a create, an
\* update, a delete, an assignRole or a removeRole of the transaction shows
\* what that call wrote
C36_ReadsSeeOwnWrites ==
  adapter.inTransaction =>
    /\ \A d \in UserInputs : CreatedUserIsRead(createUser(W, d))
    /\ \A d \in RoleInputs : CreatedRoleIsRead(createRole(W, d))
    /\ \A id \in IdsOf(W) :
         /\ \A d \in UserPartials(W) : UpdatedUserIsRead(id, updateUser(W, id, d))
         /\ \A d \in RolePartials(W) : UpdatedRoleIsRead(id, updateRole(W, id, d))
         /\ DeletedUserIsRead(id, deleteUser(W, id))
         /\ DeletedRoleIsRead(id, deleteRole(W, id))
    /\ \A u \in IdsOf(W), ro \in IdsOf(W) :
         /\ AssignedIsRead(u, ro, assignRole(W, u, ro))
         /\ RemovedIsRead(u, ro, removeRole(W, u, ro))

\* ----------------------------------------- claims: rollback and timestamps
\* the timestamps of the stored users, roles and associations, as the values
\* they are held as
TimestampsOf(w) ==
  [users |-> [i \in DOMAIN Visible(w).users |->
                <<Visible(w).users[i].createdAt, Visible(w).users[i].updatedAt>>],
   roles |-> [i \in DOMAIN Visible(w).roles |->
                <<Visible(w).roles[i].createdAt, Visible(w).roles[i].updatedAt>>],
   userRoles |-> [i \in DOMAIN Visible(w).userRoles |-> Visible(w).userRoles[i].createdAt]]

\* C37: on the FileSystemAdapter, beginTransaction followed by rollback
\* leaves every createdAt and updatedAt of the stored users, roles and
\* associations the timestamp value it was before beginTransaction
C37_RollbackKeepsTimestamps ==
  (IsFileSystem(W) /\ ~adapter.inTransaction) =>
    LET r == rollback(beginTransaction(W).w)
    IN  r.ret.ok /\ TimestampsOf(r.w) = TimestampsOf(W)

\* ------------------------------------------- claims: a failing file write
\* what a rejected fs.writeFile may leave of the file: the file as it was,
\* or the file opened for writing and nothing written
FailedWriteLeaves(w) == {w.file, <<[users |-> <<>>, roles |-> <<>>, userRoles |-> <<>>]>>, <<>>}

\* FileSystemAdapter.commit when fs.writeFile rejects with the error e and
\* leaves the file as left: the await of saveData() throws, and the two
\* assignments after it are not reached
F_commit_writeFails(w, e, left) ==
  IF ~w.adapter.inTransaction
    THEN Result(w, Err("No transaction in progress"))
    ELSE Result([w EXCEPT !.file = left, !.writes = @ + 1], Err(e))

\* C38: when fs.writeFile rejects during commit of a FileSystemAdapter, the
\* caller gets that error, the transaction is still open and holds its
\* snapshot, a rollback then restores the state read before the
\* transaction, and a commit then succeeds and writes the file
C38_FailedCommitKeepsTransaction ==
  (IsFileSystem(W) /\ adapter.inTransaction) =>
    \A left \in FailedWriteLeaves(W) :
      LET r == F_commit_writeFails(W, "EIO", left)
      IN  /\ r.ret = Err("EIO")
          /\ r.w.adapter.inTransaction
          /\ r.w.adapter.transactionData = adapter.transactionData
          /\ rollback(r.w).ret.ok
          /\ Visible(rollback(r.w).w) = preTx[1]
          /\ commit(r.w).ret.ok
          /\ ~commit(r.w).w.adapter.inTransaction
          /\ commit(r.w).w.file = <<JSONstringify(adapter.data)>>

\* ----------------------------------------------------- claims: the list sort
\* C39: 'a sorts before b' (the sort callback returns a negative number for
\* a, b) is transitive and antisymmetric over every three records, records
\* that lack a sort field among them
C39_ComparatorConsistent ==
  (sorting # <<>> /\ sorting[1].cmp # <<>>) =>
    LET cmp == sorting[1].cmp[1]
    IN  \A i \in 1..3, j \in 1..3, k \in 1..3 :
          /\ (cmp[i][j] < 0 /\ cmp[j][k] < 0) => cmp[i][k] < 0
          /\ ~(cmp[i][j] < 0 /\ cmp[j][i] < 0)

====
